---- MODULE Spec2Model ----
(***************************************************************************)
(* A model of the vice simulation server: the SimManager session registry  *)
(* and token model (server/manager.go), the Dispatcher's RPC handlers      *)
(* (server/dispatcher.go) and the parts of sim.Sim they drive              *)
(* (pkg/sim/sim.go).                                                       *)
(*                                                                         *)
(* Spec     the registry at handler granularity: every action is one whole *)
(*          RPC handler or one step of a session's driver task.            *)
(* SpecRPC  the same with every token-taking handler modelled.             *)
(* SpecCmd  Dispatcher.RunAircraftCommands, one command token per step.    *)
(* SpecConcurrent  two such calls at once.                                 *)
(* SpecLock the handlers and the driver task of one session, one mutex     *)
(*          operation or one access to shared state per step.              *)
(* SpecUpdate  one Sim in full: Sim.Update's time stepping and the         *)
(*          automatic handoff and point-out resolution of updateState.     *)
(* SpecRoster  the same Sim's sign-on roster: signOn, SignOff and          *)
(*          ChangeControlPosition with the aircraft they retag and the     *)
(*          event subscriptions they move.                                 *)
(* SpecCull the registry with simSession.CullIdleControllers: the silence  *)
(*          of each connection, the warnings and the forced sign-offs.     *)
(* SpecCID  one CIDAllocator (pkg/sim/cid.go): Allocate and Release.       *)
(* SpecAreas  the user restriction areas of one Sim, two RPC tasks.        *)
(* SpecSerialize  SpecRoster's Sim with GetSerializeSim in steps.          *)
(* SpecCrash  the registry of a server whose RPC handlers and driver tasks *)
(*          may panic, with the recovery barriers the code installs.       *)
(* SpecAdvance  updateState's once-a-second loop over the aircraft:        *)
(*          waypoints passed, go-around, check-in and far-away culling.    *)
(* SpecArgs  SpecCmd with the tokens that carry a number.                  *)
(* SpecResume  Sim.Update between pauses, sign-offs and rate changes, with *)
(*          the time the simulation last resumed kept as history.          *)
(***************************************************************************)
EXTENDS Integers, Sequences, FiniteSets, TLC

VARIABLES
    local,            \* SimManager.local
    simSessions,      \* SimManager.simSessions: name -> session id
    sessionsByToken,  \* SimManager.sessionsByToken: token -> [tcp, session]
    sessions,         \* every simSession object ever registered, by id
    nextToken,        \* number of tokens issued so far (tokens are 1, 2, ...)
    bgIdle,           \* registered idle sessions nobody connects to
    signedOff,        \* history: tokens removed by SignOff
    lastCall,         \* history: the last operation and its result
    aircraft,         \* the aircraft of the session's Sim that commands address
    call,             \* the RunAircraftCommands call of each caller
    applied,          \* history: the Sim calls that succeeded, in order
    holder,           \* the task holding each mutex: sm.mu, ss.mu, Sim.mu
    prog,             \* the steps each task still has to take in its operation
    fullSim,          \* one Sim in full: clock, timers, aircraft, event stream
    wall,             \* the wall clock (time.Now), in nanoseconds
    trace,            \* history: what the last Sim operation did
    events,           \* history: the status events posted to each session's Sim
    cull,             \* the tokensToSignOff of each driver task inside CullIdleControllers
    cids,             \* a CIDAllocator
    cidCall,          \* history: the last calls of the CIDAllocator
    areas,            \* State.UserRestrictionAreas of a Sim
    areaCall,         \* the restriction-area call of each RPC task
    serial,           \* the GetSerializeSim call in progress on fullSim
    proc,             \* the server process: running or not, the panics it has caught
    resume            \* history: when fullSim last resumed, and whether Update ran since

mgrVars == <<local, simSessions, sessionsByToken, sessions, nextToken, bgIdle, signedOff>>

\* the state of the tasks modelled step by step
simVars == <<fullSim, wall, trace>>
\* the state of a driver task's CullIdleControllers call
cullVars == <<events, cull>>
cidVars == <<cids, cidCall>>
areaVars == <<areas, areaCall>>
extVars == <<cullVars, cidVars, areaVars, serial, proc, resume>>
taskVars == <<aircraft, call, applied, holder, prog, simVars, extVars>>
cmdVars == <<aircraft, call, applied>>
lockVars == <<holder, prog>>

vars == <<local, simSessions, sessionsByToken, sessions, nextToken, bgIdle, signedOff,
          lastCall, aircraft, call, applied, holder, prog, fullSim, wall, trace,
          events, cull, cids, cidCall, areas, areaCall, serial, proc, resume>>

---------------------------------------------------------------------------
\* Bounds of the model.

\* simSession objects that may be registered in one behaviour
MaxSessions == 2
\* tokens that may be issued in one behaviour
MaxTokens == 2
\* command tokens in the command string of one RunAircraftCommands call
MaxCmds == 3
\* the same for each of two concurrent calls
MaxConcurrentCmds == 2
\* idle sessions present in the registry besides the ones modelled in detail
BgSessions == 10

---------------------------------------------------------------------------
\* Program constants.

\* SimShouldExit: nIdle > 10
maxIdleSims == 10

\* errors.go and the sim/aviation errors the handlers pass through
NoErr == "nil"
ErrControllerAlreadySignedIn == "Controller with that callsign already signed in"
ErrDuplicateSimName == "A sim with that name already exists"
ErrInvalidCommandSyntax == "Invalid command syntax"
ErrInvalidPassword == "Invalid password"
ErrInvalidSSimConfiguration == "Invalid SimConfiguration"
ErrNoNamedSim == "No Sim with that name"
ErrNoSimForControllerToken == "No Sim running for controller token"
ErrInvalidController == "invalid controller"
ErrNoController == "no controller"

---------------------------------------------------------------------------
\* The inputs the handlers are called with.

\* session names; "" is the local sim's name
Names == {"", "a"}
Passwords == {"", "pw"}
\* the scenario's positions: P1 is the primary controller, V1 is virtual
PrimaryPosition == "P1"
ScenarioSignOnPositions == {"P1", "P2"}
VirtualControllers == {"V1"}
\* positions a caller may ask for ("" is "no position given")
PositionInputs == {"P1", "P2", "V1", ""}
\* tokens a caller may present: issued ones and ones never issued (0)
TokenInputs == 0..MaxTokens

Put(f, k, v) == [x \in DOMAIN f \cup {k} |-> IF x = k THEN v ELSE f[x]]
Remove(f, k) == [x \in DOMAIN f \ {k} |-> f[x]]
EmptyMap == [x \in {} |-> 0]
Min(a, b) == IF a < b THEN a ELSE b

---------------------------------------------------------------------------
\* sim.Sim, as far as the registry drives it.  A Sim is the record
\*   humans       keys of Sim.humanControllers
\*   controllers  keys of State.Controllers
\*   instructors  keys of Sim.Instructors
\*   signOn       keys of Sim.SignOnPositions
\*   primary      State.PrimaryController
\*   paused       State.Paused
\*   idle         IdleTime() >= simIdleLimit

\* sim.NewSim followed by Sim.Activate
NewSimObject(primary) ==
    [humans |-> {}, controllers |-> VirtualControllers, instructors |-> {},
     signOn |-> ScenarioSignOnPositions, primary |-> primary,
     paused |-> FALSE, idle |-> FALSE]

\* Sim.signOn without the check of humanControllers
SimSignOnUnchecked(s, tcp, instructor) ==
    IF tcp \in s.controllers \ s.humans THEN [err |-> ErrInvalidController, sim |-> s]
    ELSE IF tcp \notin s.signOn THEN [err |-> ErrNoController, sim |-> s]
    ELSE [err |-> NoErr,
          sim |-> [s EXCEPT !.humans = @ \cup {tcp},
                            !.controllers = @ \cup {tcp},
                            !.idle = IF tcp = s.primary THEN FALSE ELSE @,
                            !.instructors = IF instructor THEN @ \cup {tcp} ELSE @]]

\* Sim.signOn
SimSignOn(s, tcp, instructor) ==
    IF tcp \in s.humans THEN [err |-> ErrControllerAlreadySignedIn, sim |-> s]
    ELSE IF tcp \in s.controllers THEN [err |-> ErrInvalidController, sim |-> s]
    ELSE IF tcp \notin s.signOn THEN [err |-> ErrNoController, sim |-> s]
    ELSE [err |-> NoErr,
          sim |-> [s EXCEPT !.humans = @ \cup {tcp},
                            !.controllers = @ \cup {tcp},
                            !.idle = IF tcp = s.primary THEN FALSE ELSE @,
                            !.instructors = IF instructor THEN @ \cup {tcp} ELSE @]]

\* Sim.SignOff
SimSignOff(s, tcp) ==
    IF tcp \notin s.humans THEN [err |-> ErrNoController, sim |-> s]
    ELSE [err |-> NoErr,
          sim |-> [s EXCEPT !.humans = @ \ {tcp},
                            !.controllers = @ \ {tcp},
                            !.instructors = @ \ {tcp}]]

\* Sim.ChangeControlPosition
SimChangeControlPosition(s, fromTCP, toTCP) ==
    LET r == SimSignOn(s, toTCP, fromTCP \in s.instructors) IN
    IF r.err # NoErr THEN [err |-> r.err, sim |-> s]
    ELSE [err |-> NoErr,
          sim |-> [r.sim EXCEPT !.humans = @ \ {fromTCP},
                                !.controllers = @ \ {fromTCP},
                                !.instructors = @ \ {fromTCP}]]

\* Sim.TogglePause
SimTogglePause(s) == [s EXCEPT !.paused = ~@, !.idle = FALSE]

\* Sim.GetSerializeSim: ss is a shallow copy, so the deletions from
\* ss.State.Controllers are deletions from the live State.Controllers
SimGetSerializeSim(s) == [s EXCEPT !.controllers = @ \ s.humans]

\* Sim.Update, as far as the registry sees it: lastUpdateTime is only
\* refreshed while unpaused with the primary controller signed on
SimUpdates(s) == ~s.paused /\ s.primary \in s.humans

---------------------------------------------------------------------------
\* Time.  A time.Duration is a count of nanoseconds.  A time.Time is the
\* pair of a count of seconds and the nanoseconds within the second; the
\* wall clock and lastUpdateTime, which are only ever subtracted from each
\* other, are counts of nanoseconds since the start of the behaviour.

\* time.Second
Second == 1000000000

MakeTime(sec, nsec) == [sec |-> sec, nsec |-> nsec]
\* Time.Add
TimeAdd(t, d) ==
    LET n == t.nsec + d IN MakeTime(t.sec + (n \div Second), n % Second)
\* Time.After
TimeAfter(t, u) == t.sec > u.sec \/ (t.sec = u.sec /\ t.nsec > u.nsec)

\* Duration.Truncate(time.Second): rounds toward zero
TruncateSecond(d) == IF d >= 0 THEN d - (d % Second) ELSE -((-d) - ((-d) % Second))
\* int(d.Seconds()) for a whole number of seconds d
WholeSeconds(d) == IF d >= 0 THEN d \div Second ELSE -((-d) \div Second)

\* the spacing of the float32 values around n >= 0 (24 bits of mantissa)
RECURSIVE Ulp(_, _)
Ulp(n, q) == IF n \div q < 16777216 THEN q ELSE Ulp(n, 2 * q)
\* float32(n) for a Duration n >= 0: the nearest float32, ties to even
Float32(n) ==
    LET q == Ulp(n, 1)
        r == n % q
        lo == n - r
    IN  IF 2 * r < q THEN lo
        ELSE IF 2 * r > q THEN lo + q
        ELSE IF (lo \div q) % 2 = 0 THEN lo ELSE lo + q
\* time.Duration(SimRate * float32(elapsed)) for a rate that is plus or
\* minus a power of two, where the float32 product is exact
ScaleElapsed(rate, elapsed) == rate * Float32(elapsed)

---------------------------------------------------------------------------
\* sim.EventStream.  A stream is the record
\*   events         every event posted, in order
\*   subscriptions  subscription id -> number of events it has consumed or
\*                  that were posted before it subscribed
\*   nextId         the id the next subscription gets

NewEventStream == [events |-> <<>>, subscriptions |-> EmptyMap, nextId |-> 1]
\* EventStream.Subscribe; the subscription made is es.nextId
Subscribe(es) ==
    [es EXCEPT !.subscriptions = Put(@, es.nextId, Len(es.events)), !.nextId = @ + 1]
\* EventStream.Post
Post(es, e) == [es EXCEPT !.events = Append(@, e)]
\* EventsSubscription.Unsubscribe
Unsubscribe(es, id) == [es EXCEPT !.subscriptions = Remove(@, id)]
\* what EventsSubscription.Get would return for subscription id
Pending(es, id) ==
    IF id \in DOMAIN es.subscriptions
    THEN SubSeq(es.events, es.subscriptions[id] + 1, Len(es.events))
    ELSE <<>>
\* EventsSubscription.Get
Get(es, id) ==
    IF id \in DOMAIN es.subscriptions
    THEN [es EXCEPT !.subscriptions[id] = Len(es.events)]
    ELSE es

Event(type, from, to, callsign) ==
    [Type |-> type, FromController |-> from, ToController |-> to, Callsign |-> callsign]
StatusMessageEvent(tcp, what) == Event("StatusMessageEvent", tcp, "", what)

---------------------------------------------------------------------------
\* The Sim in full.  fullSim is a Sim record as above with, in addition,
\*   humanControllers  Sim.humanControllers: position -> subscription id
\*   HumanControllers  State.HumanControllers
\*   eventStream       Sim.eventStream
\*   SimRate, SimTime  State.SimRate, State.SimTime
\*   updateTimeSlop, lastUpdateTime, prespawn
\*   Handoffs          callsign -> [AutoAcceptTime]
\*   PointOuts         callsign -> [FromController, ToController, AcceptTime]
\*   Aircraft          State.Aircraft: callsign ->
\*                     [TrackingController, HandoffTrackController]

Callsigns == {"AAL1", "UAL2"}
\* the subscription a position without one holds: the nil *EventsSubscription
NilSubscription == 0

\* sim.NewSim and Sim.Activate at wall-clock time 0
NewSimState ==
    [humans |-> {}, controllers |-> VirtualControllers, instructors |-> {},
     signOn |-> ScenarioSignOnPositions, primary |-> PrimaryPosition,
     paused |-> FALSE, idle |-> FALSE,
     humanControllers |-> EmptyMap, HumanControllers |-> <<>>,
     eventStream |-> NewEventStream,
     SimRate |-> 1, SimTime |-> MakeTime(0, 0),
     updateTimeSlop |-> 0, lastUpdateTime |-> 0, prespawn |-> FALSE,
     Handoffs |-> EmptyMap, PointOuts |-> EmptyMap, Aircraft |-> EmptyMap]

\* Sim.isActiveHumanController
isActiveHumanController(s, tcp) == tcp \in DOMAIN s.humanControllers

\* slices.DeleteFunc(list, == tcp): the kept elements, in order
DeleteFunc(list, tcp) == SelectSeq(list, LAMBDA x : x # tcp)
\* the slice the caller still holds when the result of DeleteFunc is
\* dropped: the kept elements moved to the front, the tail zeroed
DeleteFuncInPlace(list, tcp) ==
    LET kept == DeleteFunc(list, tcp)
    IN  kept \o [i \in 1..(Len(list) - Len(kept)) |-> ""]

\* Aircraft.HandleControllerDisconnect(tcp, primary)
HandleControllerDisconnect(ac, tcp, primary) ==
    [ac EXCEPT !.TrackingController = IF @ = tcp THEN primary ELSE @,
               !.HandoffTrackController = IF @ = tcp THEN primary ELSE @]
\* Aircraft.TransferTracks(from, to)
TransferTracks(ac, from, to) ==
    [ac EXCEPT !.TrackingController = IF @ = from THEN to ELSE @,
               !.HandoffTrackController = IF @ = from THEN to ELSE @]

\* Sim.signOn at wall-clock time now
SimSignOnFull(s, tcp, instructor, now) ==
    LET r == SimSignOn(s, tcp, instructor) IN
    IF r.err # NoErr THEN r
    ELSE [err |-> NoErr,
          sim |-> [r.sim EXCEPT
                     !.humanControllers = Put(@, tcp, s.eventStream.nextId),
                     !.HumanControllers = Append(@, tcp),
                     !.lastUpdateTime = IF tcp = s.primary THEN now ELSE @,
                     !.eventStream =
                         Post(Subscribe(@), StatusMessageEvent(tcp, "has signed on."))]]

\* Sim.SignOff
SimSignOffFull(s, tcp) ==
    LET r == SimSignOff(s, tcp) IN
    IF r.err # NoErr THEN r
    ELSE [err |-> NoErr,
          sim |-> [r.sim EXCEPT
                     !.Aircraft = [c \in DOMAIN @ |->
                                      HandleControllerDisconnect(@[c], tcp, s.primary)],
                     !.humanControllers = Remove(@, tcp),
                     !.HumanControllers = DeleteFunc(@, tcp),
                     !.eventStream =
                         Post(Unsubscribe(@, s.humanControllers[tcp]),
                              StatusMessageEvent(tcp, "has signed off."))]]

\* Sim.ChangeControlPosition signing off fromTCP before it signs on toTCP
ChangeControlPositionVacatesFirst(s, fromTCP, toTCP, now) ==
    LET off == SimSignOffFull(s, fromTCP).sim
        r == SimSignOnFull(off, toTCP, fromTCP \in s.instructors, now)
    IN  [err |-> r.err, sim |-> r.sim]

\* Sim.ChangeControlPosition up to the return of signOn(toTCP), the part
\* of it that runs holding Sim.mu
ChangeControlPositionSignOn(s, fromTCP, toTCP, now) ==
    SimSignOnFull(s, toTCP, fromTCP \in s.instructors, now)

\* Sim.ChangeControlPosition after signOn(toTCP) has returned nil: the
\* statements it runs without holding Sim.mu.  Calling Unsubscribe on the nil
\* subscription of a position signed off in the meantime panics.
ChangeControlPositionSwap(s, fromTCP, toTCP, keepTracks) ==
    IF toTCP \notin DOMAIN s.humanControllers
          \/ s.humanControllers[toTCP] = NilSubscription
    THEN [err |-> "panic", sim |-> s]
    ELSE
    LET moved == IF fromTCP \in DOMAIN s.humanControllers
                 THEN s.humanControllers[fromTCP] ELSE NilSubscription
    IN  [err |-> NoErr,
         sim |-> [s EXCEPT
                    !.eventStream =
                        Post(Unsubscribe(@, s.humanControllers[toTCP]),
                             StatusMessageEvent(fromTCP, "has signed off.")),
                    !.humanControllers = Remove(Put(@, toTCP, moved), fromTCP),
                    !.HumanControllers = DeleteFuncInPlace(Append(@, toTCP), fromTCP),
                    !.humans = @ \ {fromTCP},
                    !.controllers = @ \ {fromTCP},
                    !.instructors = @ \ {fromTCP},
                    !.Aircraft = [c \in DOMAIN @ |->
                                    IF keepTracks
                                    THEN TransferTracks(@[c], fromTCP, toTCP)
                                    ELSE HandleControllerDisconnect(@[c], fromTCP,
                                                                    s.primary)]]]

\* Sim.ChangeControlPosition with nothing running between its statements
SimChangeControlPositionFull(s, fromTCP, toTCP, keepTracks, now) ==
    LET r == ChangeControlPositionSignOn(s, fromTCP, toTCP, now) IN
    IF r.err # NoErr THEN [err |-> r.err, sim |-> s]
    ELSE ChangeControlPositionSwap(r.sim, fromTCP, toTCP, keepTracks)

\* Sim.TogglePause at wall-clock time now
SimTogglePauseFull(s, tcp, now) ==
    [SimTogglePause(s) EXCEPT
        !.lastUpdateTime = now,
        !.eventStream = Post(@, Event("GlobalMessageEvent", tcp, "",
                                      IF s.paused THEN "unpaused" ELSE "paused"))]

\* Sim.SetSimRate
SimSetSimRate(s, rate) == [s EXCEPT !.SimRate = rate]

\* updateState works on the pair of the Sim and the events posted so far
\* in this step
\* the same body resolving a handoff as soon as the deadline is reached
ResolveHandoffAtDeadline(st, callsign) ==
    LET s == st.sim IN
    IF callsign \notin DOMAIN s.Handoffs THEN st
    ELSE IF TimeAfter(s.Handoffs[callsign].AutoAcceptTime, s.SimTime) /\ ~s.prespawn
    THEN st
    ELSE LET accept == /\ callsign \in DOMAIN s.Aircraft
                       /\ s.Aircraft[callsign].HandoffTrackController # ""
                       /\ ~isActiveHumanController(
                              s, s.Aircraft[callsign].HandoffTrackController)
             ac == s.Aircraft[callsign]
             e == Event("AcceptedHandoffEvent", ac.TrackingController,
                        ac.HandoffTrackController, callsign)
         IN  IF accept
             THEN [sim |-> [s EXCEPT
                              !.eventStream = Post(@, e),
                              !.Aircraft[callsign] =
                                  [@ EXCEPT !.TrackingController = ac.HandoffTrackController,
                                            !.HandoffTrackController = ""],
                              !.Handoffs = Remove(@, callsign)],
                   posted |-> Append(st.posted, e)]
             ELSE [sim |-> [s EXCEPT !.Handoffs = Remove(@, callsign)],
                   posted |-> st.posted]

\* the same body leaving the entry in place when the receiver is a human
ResolveHandoffKeepsPending(st, callsign) ==
    LET s == st.sim IN
    IF callsign \notin DOMAIN s.Handoffs THEN st
    ELSE IF ~TimeAfter(s.SimTime, s.Handoffs[callsign].AutoAcceptTime) /\ ~s.prespawn
    THEN st
    ELSE LET accept == /\ callsign \in DOMAIN s.Aircraft
                       /\ s.Aircraft[callsign].HandoffTrackController # ""
                       /\ ~isActiveHumanController(
                              s, s.Aircraft[callsign].HandoffTrackController)
             ac == s.Aircraft[callsign]
             e == Event("AcceptedHandoffEvent", ac.TrackingController,
                        ac.HandoffTrackController, callsign)
         IN  IF accept
             THEN [sim |-> [s EXCEPT
                              !.eventStream = Post(@, e),
                              !.Aircraft[callsign] =
                                  [@ EXCEPT !.TrackingController = ac.HandoffTrackController,
                                            !.HandoffTrackController = ""],
                              !.Handoffs = Remove(@, callsign)],
                   posted |-> Append(st.posted, e)]
             ELSE st

\* updateState, the body of the loop over s.Handoffs for one callsign
ResolveHandoff(st, callsign) ==
    LET s == st.sim IN
    IF callsign \notin DOMAIN s.Handoffs THEN st
    ELSE IF ~TimeAfter(s.SimTime, s.Handoffs[callsign].AutoAcceptTime) /\ ~s.prespawn
    THEN st
    ELSE LET accept == /\ callsign \in DOMAIN s.Aircraft
                       /\ s.Aircraft[callsign].HandoffTrackController # ""
                       /\ ~isActiveHumanController(
                              s, s.Aircraft[callsign].HandoffTrackController)
             ac == s.Aircraft[callsign]
             e == Event("AcceptedHandoffEvent", ac.TrackingController,
                        ac.HandoffTrackController, callsign)
         IN  IF accept
             THEN [sim |-> [s EXCEPT
                              !.eventStream = Post(@, e),
                              !.Aircraft[callsign] =
                                  [@ EXCEPT !.TrackingController = ac.HandoffTrackController,
                                            !.HandoffTrackController = ""],
                              !.Handoffs = Remove(@, callsign)],
                   posted |-> Append(st.posted, e)]
             ELSE [sim |-> [s EXCEPT !.Handoffs = Remove(@, callsign)],
                   posted |-> st.posted]

\* the same body posting the acknowledgment in the direction of the point-out
ResolvePointOutUnswapped(st, callsign) ==
    LET s == st.sim IN
    IF callsign \notin DOMAIN s.PointOuts THEN st
    ELSE IF ~TimeAfter(s.SimTime, s.PointOuts[callsign].AcceptTime) THEN st
    ELSE LET po == s.PointOuts[callsign]
             e == Event("AcknowledgedPointOutEvent", po.FromController,
                        po.ToController, callsign)
         IN  IF callsign \in DOMAIN s.Aircraft
                  /\ ~isActiveHumanController(s, po.ToController)
             THEN [sim |-> [s EXCEPT !.eventStream = Post(@, e),
                                     !.PointOuts = Remove(@, callsign)],
                   posted |-> Append(st.posted, e)]
             ELSE st

\* updateState, the body of the loop over s.PointOuts for one callsign
ResolvePointOut(st, callsign) ==
    LET s == st.sim IN
    IF callsign \notin DOMAIN s.PointOuts THEN st
    ELSE IF ~TimeAfter(s.SimTime, s.PointOuts[callsign].AcceptTime) THEN st
    ELSE LET po == s.PointOuts[callsign]
             e == Event("AcknowledgedPointOutEvent", po.ToController,
                        po.FromController, callsign)
         IN  IF callsign \in DOMAIN s.Aircraft
                  /\ ~isActiveHumanController(s, po.ToController)
             THEN [sim |-> [s EXCEPT !.eventStream = Post(@, e),
                                     !.PointOuts = Remove(@, callsign)],
                   posted |-> Append(st.posted, e)]
             ELSE st

\* a range loop over a map visits the callsigns in an order of Go's choosing
RECURSIVE ResolveHandoffs(_, _)
ResolveHandoffs(st, order) ==
    IF order = <<>> THEN st
    ELSE ResolveHandoffs(ResolveHandoff(st, Head(order)), Tail(order))
RECURSIVE ResolvePointOuts(_, _)
ResolvePointOuts(st, order) ==
    IF order = <<>> THEN st
    ELSE ResolvePointOuts(ResolvePointOut(st, Head(order)), Tail(order))

\* Sim.updateState, its automatic handoff and point-out resolution.  The
\* result is the Sim and the events posted.
updateState(s, order) ==
    ResolvePointOuts(ResolveHandoffs([sim |-> s, posted |-> <<>>], order), order)

\* what one one-second step did: the Sim when updateState was entered and
\* when it returned, and the events it posted
StepRecord(before, st) == [before |-> before, after |-> st.sim, posted |-> st.posted]

\* Sim.Update, the loop of ns one-second steps.  The result is the Sim and
\* the record of every step.
RECURSIVE RunSteps(_, _, _, _)
RunSteps(s, ns, order, steps) ==
    IF ns <= 0 THEN [sim |-> s, steps |-> steps]
    ELSE LET ticked == [s EXCEPT !.SimTime = TimeAdd(@, Second)]
             st == updateState(ticked, order)
         IN  RunSteps(st.sim, ns - 1, order, Append(steps, StepRecord(ticked, st)))

\* Sim.Update setting lastUpdateTime before its early returns
SimUpdateRefreshesClockFirst(s, now, order) ==
    IF s.paused \/ ~isActiveHumanController(s, s.primary)
    THEN [sim |-> [s EXCEPT !.lastUpdateTime = now], steps |-> <<>>]
    ELSE LET elapsed == ScaleElapsed(s.SimRate, now - s.lastUpdateTime)
                            + s.updateTimeSlop
             r == RunSteps(s, WholeSeconds(TruncateSecond(elapsed)), order, <<>>)
         IN  [sim |-> [r.sim EXCEPT
                         !.updateTimeSlop = elapsed - TruncateSecond(elapsed),
                         !.lastUpdateTime = now],
              steps |-> r.steps]

\* Sim.Update at wall-clock time now.  Aircraft.Check, which it calls on
\* every aircraft first, only logs.
SimUpdate(s, now, order) ==
    IF s.paused \/ ~isActiveHumanController(s, s.primary)
    THEN [sim |-> s, steps |-> <<>>]
    ELSE LET elapsed == ScaleElapsed(s.SimRate, now - s.lastUpdateTime)
                            + s.updateTimeSlop
             r == RunSteps(s, WholeSeconds(TruncateSecond(elapsed)), order, <<>>)
         IN  [sim |-> [r.sim EXCEPT
                         !.updateTimeSlop = elapsed - TruncateSecond(elapsed),
                         !.lastUpdateTime = now],
              steps |-> r.steps]

\* the history: the last operation on fullSim, with
\*   op, arg, err   the method, its arguments and its result
\*   prev           op, arg and err of the operation before it
\*   steps          the one-second steps of the last Update
\*   totalSec, totalNsec   the sum, over the Update calls that did not return
\*                  early, of SimRate times the wall-clock time since
\*                  lastUpdateTime, exactly
\*   nsteps         the one-second steps taken so far
\*   calls          the calls made so far, Update and time passing aside
\*   swap           the ChangeControlPosition call that has returned from
\*                  signOn and not yet run the rest, if any
NoTrace ==
    [op |-> "init", arg |-> <<>>, err |-> NoErr,
     prev |-> [op |-> "init", arg |-> <<>>, err |-> NoErr],
     steps |-> <<>>, totalSec |-> 0, totalNsec |-> 0, nsteps |-> 0, calls |-> 0,
     swap |-> <<>>]

---------------------------------------------------------------------------
\* simSession.  A session is the record
\*   name, password
\*   sim          its Sim
\*   conns        connectionsByTCP: tcp -> [token, silent, warned]; silent is
\*                the time since lastUpdateCall: 0 (<= 5 s), 1 (> 5 s), 2 (> 15 s)
\*   running      its driver task has been started and has not exited
\*   destroyed    Sim.Destroy has been called

\* simSession.AddHumanController
AddHumanController(ss, tcp, token) ==
    [ss EXCEPT !.conns = Put(@, tcp, [token |-> token, silent |-> 0, warned |-> FALSE])]

\* simSession.SignOff
SessionSignOff(ss, tcp) == [ss EXCEPT !.conns = Remove(@, tcp)]

\* simSession.GotUpdateCallForTCP
GotUpdateCallForTCP(ss, tcp) ==
    IF tcp \notin DOMAIN ss.conns THEN ss
    ELSE [ss EXCEPT !.conns[tcp].silent = 0, !.conns[tcp].warned = FALSE]

---------------------------------------------------------------------------
\* SimManager.

\* lookupController resolving an unknown token to a default controller
lookupControllerAnonymous(tok, token) ==
    IF token \in DOMAIN tok
    THEN [ok |-> TRUE, tcp |-> tok[token].tcp, session |-> tok[token].session]
    ELSE IF DOMAIN tok # {}
    THEN LET t == CHOOSE x \in DOMAIN tok : TRUE
         IN [ok |-> TRUE, tcp |-> tok[t].tcp, session |-> tok[t].session]
    ELSE [ok |-> FALSE, tcp |-> "", session |-> 0]

\* SimManager.lookupController
lookupController(tok, token) ==
    IF token \in DOMAIN tok
    THEN [ok |-> TRUE, tcp |-> tok[token].tcp, session |-> tok[token].session]
    ELSE [ok |-> FALSE, tcp |-> "", session |-> 0]

\* signOff without delete(sm.sessionsByToken, token)
signOffKeepsToken(tok, ses, token) ==
    IF token \notin DOMAIN tok
    THEN [err |-> ErrNoSimForControllerToken, tok |-> tok, ses |-> ses]
    ELSE LET ctrl == tok[token]
             r == SimSignOff(ses[ctrl.session].sim, ctrl.tcp)
         IN [err |-> r.err,
             tok |-> tok,
             ses |-> [ses EXCEPT ![ctrl.session] =
                         [SessionSignOff(@, ctrl.tcp) EXCEPT !.sim = r.sim]]]

\* SimManager.signOff, on the pair (sessionsByToken, sessions)
signOff(tok, ses, token) ==
    IF token \notin DOMAIN tok
    THEN [err |-> ErrNoSimForControllerToken, tok |-> tok, ses |-> ses]
    ELSE LET ctrl == tok[token]
             r == SimSignOff(ses[ctrl.session].sim, ctrl.tcp)
         IN [err |-> r.err,
             tok |-> Remove(tok, token),
             ses |-> [ses EXCEPT ![ctrl.session] =
                         [SessionSignOff(@, ctrl.tcp) EXCEPT !.sim = r.sim]]]

\* SimManager.SimShouldExit
SimShouldExit(sid) ==
    LET idleSim(i) == sessions[i].sim.idle
        nIdle == bgIdle + Cardinality({n \in DOMAIN simSessions : idleSim(simSessions[n])})
    IN idleSim(sid) /\ nIdle > maxIdleSims

\* SimManager.makeSimConfiguration: the primary controller and the sign-on
\* positions of the selected split; nothing is resolved for an unknown split
makeSimConfiguration(split) ==
    IF split = "ok"
    THEN [primary |-> PrimaryPosition, signOn |-> ScenarioSignOnPositions]
    ELSE [primary |-> "", signOn |-> {}]

\* Add without the duplicate-name check
AddReplacesDuplicate(name, password, nsc, instructor) ==
    LET sid == Len(sessions) + 1
        sim0 == [NewSimObject(nsc.primary) EXCEPT !.signOn = nsc.signOn]
        r == SimSignOn(sim0, nsc.primary, instructor)
        ss0 == [name |-> name, password |-> password, sim |-> r.sim, conns |-> EmptyMap,
                running |-> FALSE, destroyed |-> FALSE]
        token == nextToken + 1
    IN  IF r.err # NoErr
        THEN [err |-> r.err, reg |-> Put(simSessions, name, sid), tok |-> sessionsByToken,
              ses |-> Append(sessions, ss0), issued |-> nextToken]
        ELSE [err |-> NoErr, reg |-> Put(simSessions, name, sid),
              tok |-> Put(sessionsByToken, token, [tcp |-> nsc.primary, session |-> sid]),
              ses |-> Append(sessions,
                         [AddHumanController(ss0, nsc.primary, token) EXCEPT !.running = TRUE]),
              issued |-> token]

\* SimManager.Add, after session.sim.Activate: the duplicate-name check, the
\* registration, the initial sign-on, the token and the start of the driver
Add(name, password, nsc, instructor) ==
    LET sid == Len(sessions) + 1
        sim0 == [NewSimObject(nsc.primary) EXCEPT !.signOn = nsc.signOn]
        r == SimSignOn(sim0, nsc.primary, instructor)
        ss0 == [name |-> name, password |-> password, sim |-> r.sim, conns |-> EmptyMap,
                running |-> FALSE, destroyed |-> FALSE]
        token == nextToken + 1
    IN  IF name \in DOMAIN simSessions /\ name # ""
        THEN [err |-> ErrDuplicateSimName, reg |-> simSessions, tok |-> sessionsByToken,
              ses |-> sessions, issued |-> nextToken]
        ELSE IF r.err # NoErr
        THEN [err |-> r.err, reg |-> Put(simSessions, name, sid), tok |-> sessionsByToken,
              ses |-> Append(sessions, ss0), issued |-> nextToken]
        ELSE [err |-> NoErr, reg |-> Put(simSessions, name, sid),
              tok |-> Put(sessionsByToken, token, [tcp |-> nsc.primary, session |-> sid]),
              ses |-> Append(sessions,
                         [AddHumanController(ss0, nsc.primary, token) EXCEPT !.running = TRUE]),
              issued |-> token]

\* ConnectToSim without the password check
ConnectToSimAnyPassword(name, pos, password) ==
    LET unchanged(e) == [err |-> e, tok |-> sessionsByToken, ses |-> sessions,
                         issued |-> nextToken]
    IN  IF name \notin DOMAIN simSessions THEN unchanged(ErrNoNamedSim)
        ELSE LET sid == simSessions[name]
                 session == sessions[sid]
                 r == SimSignOn(session.sim, pos, FALSE)
                 token == nextToken + 1
             IN  IF r.err # NoErr THEN unchanged(r.err)
                 ELSE [err |-> NoErr,
                       tok |-> Put(sessionsByToken, token, [tcp |-> pos, session |-> sid]),
                       ses |-> [sessions EXCEPT ![sid] =
                                   AddHumanController([@ EXCEPT !.sim = r.sim], pos, token)],
                       issued |-> token]

\* SimManager.ConnectToSim
ConnectToSim(name, pos, password) ==
    LET unchanged(e) == [err |-> e, tok |-> sessionsByToken, ses |-> sessions,
                         issued |-> nextToken]
    IN  IF name \notin DOMAIN simSessions THEN unchanged(ErrNoNamedSim)
        ELSE LET sid == simSessions[name]
                 session == sessions[sid]
                 r == SimSignOn(session.sim, pos, FALSE)
                 token == nextToken + 1
             IN  IF session.password # "" /\ password # session.password
                 THEN unchanged(ErrInvalidPassword)
                 ELSE IF r.err # NoErr THEN unchanged(r.err)
                 ELSE [err |-> NoErr,
                       tok |-> Put(sessionsByToken, token, [tcp |-> pos, session |-> sid]),
                       ses |-> [sessions EXCEPT ![sid] =
                                   AddHumanController([@ EXCEPT !.sim = r.sim], pos, token)],
                       issued |-> token]

\* simSession.CullIdleControllers: the positions warned and the tokens signed off
CullWarned(ss) == {tcp \in DOMAIN ss.conns : ss.conns[tcp].silent >= 1}
CullTokens(ss) == {ss.conns[tcp].token : tcp \in {t \in DOMAIN ss.conns : ss.conns[t].silent = 2}}

RECURSIVE SignOffAll(_, _, _)
SignOffAll(tok, ses, tokens) ==
    IF tokens = {} THEN [tok |-> tok, ses |-> ses]
    ELSE LET t == CHOOSE x \in tokens : TRUE
             r == signOff(tok, ses, t)
         IN SignOffAll(r.tok, r.ses, tokens \ {t})

\* simSession.CullIdleControllers, on the pair (sessionsByToken, sessions): the
\* 5 s warnings under the session lock, then sm.SignOff for every collected token
CullIdleControllers(tok, ses, sid) ==
    LET ss == ses[sid]
        warned == [ses EXCEPT ![sid].conns =
                      [tcp \in DOMAIN @ |->
                          IF tcp \in CullWarned(ss) THEN [@[tcp] EXCEPT !.warned = TRUE]
                          ELSE @[tcp]]]
    IN SignOffAll(tok, warned, CullTokens(ss))

---------------------------------------------------------------------------
\* Dispatcher.RunAircraftCommands and the command language.  Strings are
\* sequences of one-character strings.

\* the tasks that may be inside RunAircraftCommands at once
Callers == {"c1", "c2"}

\* the mutexes: SimManager.mu, simSession.mu, Sim.mu
Locks == {"sm", "ss", "sim"}
\* two RPC goroutines and the driver goroutine of the session
RPCTasks == {"rpc1", "rpc2"}
Tasks == RPCTasks \cup {"driver"}
NoTask == "none"

\* an aircraft of State.Aircraft, as far as the commands modelled change it
NewAircraft ==
    [exists |-> TRUE, heading |-> 0, altitude |-> 0, speed |-> 0, crossing |-> <<>>]

\* a caller outside RunAircraftCommands
NoCall ==
    [pc |-> "idle", token |-> 0, toks |-> <<>>, input |-> <<>>, commands |-> <<>>, i |-> 0,
     ac0 |-> NewAircraft, err |-> NoErr,
     result |-> [ErrorMessage |-> "", RemainingInput |-> <<>>]]

\* strconv.Atoi: parsing "...": invalid syntax
ErrAtoiSyntax == "strconv.Atoi: invalid syntax"
\* the engine's errors for a callsign without aircraft and for a heading
\* outside 1..360
ErrNoAircraftForCallsign == "No aircraft exists with specified callsign"
ErrInvalidHeading == "Invalid heading"
ErrInvalidAltitudeRestriction == "Invalid altitude restriction"

DigitChars == <<"0", "1", "2", "3", "4", "5", "6", "7", "8", "9">>
IsDigit(c) == \E d \in 1..10 : DigitChars[d] = c
DigitVal(c) == (CHOOSE d \in 1..10 : DigitChars[d] = c) - 1

\* util.IsAllNumbers
IsAllNumbers(str) == \A k \in 1..Len(str) : IsDigit(str[k])

RECURSIVE DecimalValue(_)
DecimalValue(digits) ==
    IF digits = <<>> THEN 0
    ELSE 10 * DecimalValue(SubSeq(digits, 1, Len(digits) - 1)) + DigitVal(digits[Len(digits)])

\* strconv.Atoi: an optional sign and at least one decimal digit
Atoi(str) ==
    LET signed == str # <<>> /\ Head(str) \in {"+", "-"}
        digits == IF signed THEN Tail(str) ELSE str
    IN  IF digits = <<>> \/ ~IsAllNumbers(digits) THEN [ok |-> FALSE, val |-> 0]
        ELSE [ok |-> TRUE,
              val |-> IF signed /\ Head(str) = "-" THEN 0 - DecimalValue(digits)
                      ELSE DecimalValue(digits)]

\* strings.Fields: the maximal runs of non-space characters
RECURSIVE Fields(_)
Fields(str) ==
    IF str = <<>> THEN <<>>
    ELSE IF Head(str) = " " THEN Fields(Tail(str))
    ELSE LET stops == {k \in 1..Len(str) : str[k] = " "}
             end == IF stops = {} THEN Len(str) + 1
                    ELSE CHOOSE k \in stops : \A j \in stops : k <= j
         IN  <<SubSeq(str, 1, end - 1)>> \o Fields(SubSeq(str, end, Len(str)))

\* strings.Split(str, sep) for a one-character separator: empty pieces are kept
RECURSIVE Split(_, _)
Split(str, sep) ==
    LET stops == {k \in 1..Len(str) : str[k] = sep} IN
    IF stops = {} THEN <<str>>
    ELSE LET end == CHOOSE k \in stops : \A j \in stops : k <= j
         IN  <<SubSeq(str, 1, end - 1)>> \o Split(SubSeq(str, end + 1, Len(str)), sep)

\* strings.Join(strs, sep)
RECURSIVE Join(_, _)
Join(strs, sep) ==
    IF strs = <<>> THEN <<>>
    ELSE IF Len(strs) = 1 THEN strs[1]
    ELSE strs[1] \o sep \o Join(Tail(strs), sep)

\* av.ParseAltitudeRestriction: "50" is at 50, "50+" at or above, "50-" at or
\* below; the range is [low, high] with 0 for an open end
ParseAltitudeRestriction(str) ==
    LET n == Len(str)
        last == IF n = 0 THEN "" ELSE str[n]
        digits == IF last \in {"+", "-"} THEN SubSeq(str, 1, n - 1) ELSE str
    IN  IF digits = <<>> \/ ~IsAllNumbers(digits)
        THEN [err |-> ErrInvalidAltitudeRestriction, range |-> <<0, 0>>]
        ELSE LET v == DecimalValue(digits) IN
             [err |-> NoErr,
              range |-> IF last = "+" THEN <<v, 0>>
                        ELSE IF last = "-" THEN <<0, v>> ELSE <<v, v>>]

---------------------------------------------------------------------------
\* The engine's command methods on one aircraft.  Each returns [err, ac] and
\* either applies the whole clearance or fails leaving the aircraft as it was.

\* Sim.AssignHeading with sim.HeadingArgs h
AssignHeading(ac, h) ==
    IF ~ac.exists THEN [err |-> ErrNoAircraftForCallsign, ac |-> ac]
    ELSE IF h.present THEN [err |-> NoErr, ac |-> ac]
    ELSE IF h.left # 0
    THEN [err |-> NoErr, ac |-> [ac EXCEPT !.heading = (@ + 360 - (h.left % 360)) % 360]]
    ELSE IF h.right # 0
    THEN [err |-> NoErr, ac |-> [ac EXCEPT !.heading = (@ + h.right) % 360]]
    ELSE IF h.heading <= 0 \/ h.heading > 360 THEN [err |-> ErrInvalidHeading, ac |-> ac]
    ELSE [err |-> NoErr, ac |-> [ac EXCEPT !.heading = h.heading]]

HeadingArgs == [present |-> FALSE, heading |-> 0, turn |-> "", left |-> 0, right |-> 0]

\* Sim.AssignAltitude (feet)
AssignAltitude(ac, altitude) ==
    IF ~ac.exists THEN [err |-> ErrNoAircraftForCallsign, ac |-> ac]
    ELSE [err |-> NoErr, ac |-> [ac EXCEPT !.altitude = altitude]]

\* Sim.AssignSpeed (knots; 0 cancels the restriction)
AssignSpeed(ac, kts) ==
    IF ~ac.exists THEN [err |-> ErrNoAircraftForCallsign, ac |-> ac]
    ELSE [err |-> NoErr, ac |-> [ac EXCEPT !.speed = kts]]

\* Sim.CrossFixAt: ar is <<>> (nil) or the range <<low, high>> in feet
CrossFixAt(ac, fix, ar, speed) ==
    IF ~ac.exists THEN [err |-> ErrNoAircraftForCallsign, ac |-> ac]
    ELSE [err |-> NoErr, ac |-> [ac EXCEPT !.crossing = <<fix, ar, speed>>]]

\* Sim.DeleteAircraft: unconditional
DeleteAircraft(ac) == [err |-> NoErr, ac |-> [ac EXCEPT !.exists = FALSE]]

\* The clearances that change nothing modelled here (approach clearances,
\* expedite, ident, handoff, transponder, readbacks)
Clearance(ac) ==
    IF ~ac.exists THEN [err |-> ErrNoAircraftForCallsign, ac |-> ac]
    ELSE [err |-> NoErr, ac |-> ac]

\* State.Locate
KnownFixes == {<<"A", "B", "C">>}
Locate(fix) == fix \in KnownFixes

---------------------------------------------------------------------------
\* One pass of the loop body of RunAircraftCommands: [err, ac, method], with
\* method the Sim method that was applied ("" when none was).

Fail(ac, err) == [err |-> err, ac |-> ac, method |-> ""]
Did(r, method) == [err |-> r.err, ac |-> r.ac, method |-> IF r.err = NoErr THEN method ELSE ""]
AtoiThen(ac, str, r, method) == IF ~Atoi(str).ok THEN Fail(ac, ErrAtoiSyntax) ELSE Did(r, method)

\* the clauses after the fix of a cross-fix command, parsed in order
RECURSIVE ParseClauses(_, _, _)
ParseClauses(clauses, ar, speed) ==
    IF clauses = <<>> THEN [err |-> NoErr, ar |-> ar, speed |-> speed]
    ELSE LET cmd == Head(clauses) IN
         IF cmd = <<>> THEN [err |-> ErrInvalidCommandSyntax, ar |-> ar, speed |-> speed]
         ELSE IF cmd[1] = "A" /\ Len(cmd) > 1
         THEN LET r == ParseAltitudeRestriction(Tail(cmd)) IN
              IF r.err # NoErr THEN [err |-> r.err, ar |-> ar, speed |-> speed]
              ELSE ParseClauses(Tail(clauses), <<r.range[1] * 100, r.range[2] * 100>>, speed)
         ELSE IF cmd[1] = "S"
         THEN LET kts == Atoi(Tail(cmd)) IN
              IF ~kts.ok THEN [err |-> ErrAtoiSyntax, ar |-> ar, speed |-> speed]
              ELSE ParseClauses(Tail(clauses), ar, kts.val)
         ELSE [err |-> ErrInvalidCommandSyntax, ar |-> ar, speed |-> speed]

\* a cross-fix command that hands each clause to the engine as it is parsed
RECURSIVE ApplyClauses(_, _, _)
ApplyClauses(ac, fix, clauses) ==
    IF clauses = <<>> THEN [err |-> NoErr, ac |-> ac]
    ELSE LET p == ParseClauses(<<Head(clauses)>>, <<>>, 0) IN
         IF p.err # NoErr THEN [err |-> p.err, ac |-> ac]
         ELSE LET r == CrossFixAt(ac, fix, p.ar, p.speed) IN
              IF r.err # NoErr THEN r ELSE ApplyClauses(r.ac, fix, Tail(clauses))

CrossFixClauseByClause(ac, components) ==
    Did(ApplyClauses(ac, Tail(components[1]), Tail(components)), "CrossFixAt")

\* "C<fix>/A<alt>/S<spd>": every clause is parsed before the one CrossFixAt
CrossFix(ac, components) ==
    LET p == ParseClauses(Tail(components), <<>>, 0) IN
    IF p.err # NoErr THEN Fail(ac, p.err)
    ELSE Did(CrossFixAt(ac, Tail(components[1]), p.ar, p.speed), "CrossFixAt")

\* case 'A', 'C'
CommandAC(ac, command) ==
    LET rest == Tail(command)
        components == Split(command, "/")
    IN  IF command = <<"C", "A", "C">> THEN Did(Clearance(ac), "CancelApproachClearance")
        ELSE IF command = <<"C", "V", "S">> THEN Did(Clearance(ac), "ClimbViaSID")
        ELSE IF Len(command) > 4 /\ SubSeq(command, 1, 3) = <<"C", "S", "I">>
                   /\ ~IsAllNumbers(SubSeq(command, 4, Len(command)))
        THEN Did(Clearance(ac), "ClearedApproach")
        ELSE IF command[1] = "C" /\ Len(command) > 2 /\ ~IsAllNumbers(rest)
        THEN IF Len(components) > 1 THEN CrossFix(ac, components)
             ELSE Did(Clearance(ac), "ClearedApproach")
        ELSE IF command[1] = "A"
        THEN IF Len(components) # 2 \/ components[2] = <<>> \/ components[2][1] # "C"
             THEN Fail(ac, ErrInvalidCommandSyntax)
             ELSE Did(Clearance(ac), "AtFixCleared")
        ELSE AtoiThen(ac, rest, AssignAltitude(ac, 100 * Atoi(rest).val), "AssignAltitude")

\* case 'D' handing the typed altitude to the engine as it is
CommandDLiteral(ac, command) ==
    LET rest == Tail(command)
        components == Split(command, "/")
    IN  IF command = <<"D", "V", "S">> THEN Did(Clearance(ac), "DescendViaSTAR")
        ELSE IF Len(components) > 1 /\ Len(components[2]) > 1
        THEN IF components[2][1] = "D" THEN Did(Clearance(ac), "DepartFixDirect")
             ELSE IF components[2][1] = "H"
             THEN AtoiThen(ac, Tail(components[2]), Clearance(ac), "DepartFixHeading")
             ELSE Fail(ac, ErrInvalidCommandSyntax)
        ELSE IF Len(command) > 1 /\ IsDigit(command[2])
        THEN AtoiThen(ac, rest, AssignAltitude(ac, Atoi(rest).val), "AssignAltitude")
        ELSE IF Locate(rest) THEN Did(Clearance(ac), "DirectFix")
        ELSE Fail(ac, ErrInvalidCommandSyntax)

\* case 'D'
CommandD(ac, command) ==
    LET rest == Tail(command)
        components == Split(command, "/")
    IN  IF command = <<"D", "V", "S">> THEN Did(Clearance(ac), "DescendViaSTAR")
        ELSE IF Len(components) > 1 /\ Len(components[2]) > 1
        THEN IF components[2][1] = "D" THEN Did(Clearance(ac), "DepartFixDirect")
             ELSE IF components[2][1] = "H"
             THEN AtoiThen(ac, Tail(components[2]), Clearance(ac), "DepartFixHeading")
             ELSE Fail(ac, ErrInvalidCommandSyntax)
        ELSE IF Len(command) > 1 /\ IsDigit(command[2])
        THEN AtoiThen(ac, rest, AssignAltitude(ac, 100 * Atoi(rest).val), "AssignAltitude")
        ELSE IF Locate(rest) THEN Did(Clearance(ac), "DirectFix")
        ELSE Fail(ac, ErrInvalidCommandSyntax)

\* case 'E'
CommandE(ac, command) ==
    IF command = <<"E", "D">> THEN Did(Clearance(ac), "ExpediteDescent")
    ELSE IF command = <<"E", "C">> THEN Did(Clearance(ac), "ExpediteClimb")
    ELSE IF Len(command) > 1 THEN Did(Clearance(ac), "ExpectApproach")
    ELSE Fail(ac, ErrInvalidCommandSyntax)

\* case 'F'
CommandF(ac, command) ==
    IF command = <<"F", "C">> THEN Did(Clearance(ac), "HandoffControl")
    ELSE Fail(ac, ErrInvalidCommandSyntax)

\* case 'H'
CommandH(ac, command) ==
    LET rest == Tail(command) IN
    IF Len(command) = 1
    THEN Did(AssignHeading(ac, [HeadingArgs EXCEPT !.present = TRUE]), "AssignHeading")
    ELSE AtoiThen(ac, rest,
                  AssignHeading(ac, [HeadingArgs EXCEPT !.heading = Atoi(rest).val,
                                                        !.turn = "TurnClosest"]),
                  "AssignHeading")

\* case 'I'
CommandI(ac, command) ==
    IF Len(command) = 1 THEN Did(Clearance(ac), "InterceptLocalizer")
    ELSE IF command = <<"I", "D">> THEN Did(Clearance(ac), "Ident")
    ELSE Fail(ac, ErrInvalidCommandSyntax)

\* case 'L' and case 'R': side is "left" or "right"
CommandLR(ac, command, side) ==
    LET l == Len(command)
        rest == Tail(command)
        deg == SubSeq(command, 2, l - 1)
    IN  IF l > 2 /\ command[l] = "D"
        THEN AtoiThen(ac, deg,
                      AssignHeading(ac, IF side = "left"
                                        THEN [HeadingArgs EXCEPT !.left = Atoi(deg).val]
                                        ELSE [HeadingArgs EXCEPT !.right = Atoi(deg).val]),
                      "AssignHeading")
        ELSE AtoiThen(ac, rest,
                      AssignHeading(ac, [HeadingArgs EXCEPT
                                            !.heading = Atoi(rest).val,
                                            !.turn = IF side = "left" THEN "TurnLeft"
                                                     ELSE "TurnRight"]),
                      "AssignHeading")

\* av.ParseSquawk: four octal digits
ErrInvalidSquawk == "Invalid squawk code"
ParseSquawk(str) ==
    IF Len(str) = 4 /\ \A k \in 1..4 : IsDigit(str[k]) /\ DigitVal(str[k]) < 8
    THEN NoErr ELSE ErrInvalidSquawk

\* case 'S'
CommandS(ac, command) ==
    LET rest == Tail(command) IN
    IF Len(command) = 1 THEN Did(AssignSpeed(ac, 0), "AssignSpeed")
    ELSE IF command = <<"S", "M", "I", "N">> THEN Did(Clearance(ac), "MaintainSlowestPractical")
    ELSE IF command = <<"S", "M", "A", "X">> THEN Did(Clearance(ac), "MaintainMaximumForward")
    ELSE IF command = <<"S", "S">> THEN Did(Clearance(ac), "SaySpeed")
    ELSE IF command \in {<<"S", "Q", "S">>, <<"S", "Q", "A">>, <<"S", "Q", "O", "N">>}
    THEN Did(Clearance(ac), "ChangeTransponderMode")
    ELSE IF Len(command) = 6 /\ SubSeq(command, 1, 2) = <<"S", "Q">>
    THEN IF ParseSquawk(SubSeq(command, 3, 6)) # NoErr
         THEN Fail(ac, ParseSquawk(SubSeq(command, 3, 6)))
         ELSE Did(Clearance(ac), "ChangeSquawk")
    ELSE IF command = <<"S", "H">> THEN Did(Clearance(ac), "SayHeading")
    ELSE IF command = <<"S", "A">> THEN Did(Clearance(ac), "SayAltitude")
    ELSE AtoiThen(ac, rest, AssignSpeed(ac, Atoi(rest).val), "AssignSpeed")

\* case 'T'
CommandT(ac, command) ==
    LET n == Len(command)
        deg == Atoi(SubSeq(command, 2, n - 1))
        num == SubSeq(command, 3, n)
    IN  IF command = <<"T", "O">> THEN Did(Clearance(ac), "ContactTower")
        ELSE IF n > 2
        THEN IF deg.ok /\ command[n] = "L"
             THEN Did(AssignHeading(ac, [HeadingArgs EXCEPT !.left = deg.val]),
                      "AssignHeading")
             ELSE IF deg.ok /\ command[n] = "R"
             THEN Did(AssignHeading(ac, [HeadingArgs EXCEPT !.right = deg.val]),
                      "AssignHeading")
             ELSE IF SubSeq(command, 1, 2) = <<"T", "S">>
             THEN AtoiThen(ac, num, AssignSpeed(ac, Atoi(num).val), "AssignSpeed")
             ELSE IF SubSeq(command, 1, 2) \in {<<"T", "A">>, <<"T", "C">>, <<"T", "D">>}
             THEN AtoiThen(ac, num, AssignAltitude(ac, 100 * Atoi(num).val),
                           "AssignAltitude")
             ELSE Fail(ac, ErrInvalidCommandSyntax)
        ELSE Fail(ac, ErrInvalidCommandSyntax)

\* case 'X': the result of s.DeleteAircraft is not looked at
CommandX(ac, command) ==
    [err |-> NoErr, ac |-> DeleteAircraft(ac).ac, method |-> "DeleteAircraft"]

\* switch command[0]
ExecCommand(ac, command) ==
    LET c == command[1] IN
    IF c \in {"A", "C"} THEN CommandAC(ac, command)
    ELSE IF c = "D" THEN CommandD(ac, command)
    ELSE IF c = "E" THEN CommandE(ac, command)
    ELSE IF c = "F" THEN CommandF(ac, command)
    ELSE IF c = "H" THEN CommandH(ac, command)
    ELSE IF c = "I" THEN CommandI(ac, command)
    ELSE IF c = "L" THEN CommandLR(ac, command, "left")
    ELSE IF c = "R" THEN CommandLR(ac, command, "right")
    ELSE IF c = "S" THEN CommandS(ac, command)
    ELSE IF c = "T" THEN CommandT(ac, command)
    ELSE IF c = "X" THEN CommandX(ac, command)
    ELSE Fail(ac, ErrInvalidCommandSyntax)

---------------------------------------------------------------------------
\* CIDAllocator (pkg/sim/cid.go).  A CID is a three-character string.  The
\* allocator is the record
\*   groups      the 7 partitions: the free codes of each
\*   cidGroup    the partition every code was generated in
\*   groupIndex  the partition Allocate draws from, 0-based as in the code
\*   allocated   the codes held
\* The alphabets are cut down to one digit, one preferred and one
\* non-preferred letter, which leaves every partition non-empty and the
\* sixth with three codes.

Digits == {"0"}
PreferredAlphas == {"P"}
NonPreferredAlphas == {"M"}

\* generateCIDGroups: the codes added to each partition
GeneratedGroups ==
    <<{a \o b \o c : a \in Digits, b \in Digits, c \in Digits},
      {a \o b \o l : a \in Digits, b \in Digits, l \in PreferredAlphas},
      {a \o l1 \o l2 : a \in Digits, l1 \in PreferredAlphas, l2 \in PreferredAlphas},
      {a \o l \o b : a \in Digits, l \in PreferredAlphas, b \in Digits},
      {a \o b \o l : a \in Digits, b \in Digits, l \in NonPreferredAlphas},
      {d \o a1 \o a2 : d \in Digits, a1 \in NonPreferredAlphas, a2 \in NonPreferredAlphas}
         \cup {d \o a1 \o a2 : d \in Digits, a1 \in NonPreferredAlphas, a2 \in PreferredAlphas}
         \cup {d \o a1 \o a2 : d \in Digits, a1 \in PreferredAlphas, a2 \in NonPreferredAlphas},
      {a \o l \o b : a \in Digits, l \in NonPreferredAlphas, b \in Digits}>>

\* len(c.groups)
NumGroups == Len(GeneratedGroups)

\* every code generated
Codes == UNION {GeneratedGroups[i] : i \in 1..NumGroups}

\* generateCIDGroups: cidMap, written by every add in the order of the
\* loops, so a code added twice maps to the last partition it was added to
GeneratedCIDMap ==
    [cid \in Codes |->
        (CHOOSE i \in 1..NumGroups :
            /\ cid \in GeneratedGroups[i]
            /\ \A j \in (i + 1)..NumGroups : cid \notin GeneratedGroups[j]) - 1]

\* NewCIDAllocator
NewCIDAllocator ==
    [groups |-> GeneratedGroups, cidGroup |-> GeneratedCIDMap, groupIndex |-> 0,
     allocated |-> {}]

\* the error of Allocate
ErrNoMoreCIDs == "no more CIDs available"

\* Allocate's loop up to its first partition that is not empty
RECURSIVE SkipEmptyGroups(_)
SkipEmptyGroups(c) ==
    IF c.groupIndex < NumGroups /\ c.groups[c.groupIndex + 1] = {}
    THEN SkipEmptyGroups([c EXCEPT !.groupIndex = @ + 1])
    ELSE c

\* the codes rand.Intn may make Allocate return
AllocateChoices(c) ==
    LET c1 == SkipEmptyGroups(c)
    IN  IF c1.groupIndex < NumGroups THEN c1.groups[c1.groupIndex + 1] ELSE {""}

\* Allocate leaving the code in its partition
CIDAllocateKeepsFree(c, cid) ==
    LET c1 == SkipEmptyGroups(c)
    IN  IF c1.groupIndex < NumGroups
        THEN [cid |-> cid, err |-> NoErr,
              alloc |-> [c1 EXCEPT !.allocated = @ \cup {cid}]]
        ELSE [cid |-> "", err |-> ErrNoMoreCIDs, alloc |-> c1]

\* Allocate giving up at the first empty partition
CIDAllocateNoAdvance(c, cid) ==
    IF c.groupIndex < NumGroups /\ c.groups[c.groupIndex + 1] # {}
    THEN [cid |-> cid, err |-> NoErr,
          alloc |-> [c EXCEPT !.groups[c.groupIndex + 1] = @ \ {cid},
                              !.allocated = @ \cup {cid}]]
    ELSE [cid |-> "", err |-> ErrNoMoreCIDs, alloc |-> c]

\* CIDAllocator.Allocate, cid being the code rand.Intn selects
CIDAllocate(c, cid) ==
    LET c1 == SkipEmptyGroups(c)
    IN  IF c1.groupIndex < NumGroups
        THEN [cid |-> cid, err |-> NoErr,
              alloc |-> [c1 EXCEPT !.groups[c1.groupIndex + 1] = @ \ {cid},
                                   !.allocated = @ \cup {cid}]]
        ELSE [cid |-> "", err |-> ErrNoMoreCIDs, alloc |-> c1]

\* Release without the rewind of groupIndex
CIDReleaseNoRewind(c, cid) ==
    IF cid \notin c.allocated THEN c
    ELSE LET c1 == [c EXCEPT !.allocated = @ \ {cid}]
         IN  IF cid \notin DOMAIN c.cidGroup THEN c1
             ELSE [c1 EXCEPT !.groups[c.cidGroup[cid] + 1] = @ \cup {cid}]

\* Release putting the code into the partition Allocate draws from
CIDReleaseToCurrentGroup(c, cid) ==
    IF cid \notin c.allocated THEN c
    ELSE LET c1 == [c EXCEPT !.allocated = @ \ {cid}]
         IN  IF cid \notin DOMAIN c.cidGroup THEN c1
             ELSE LET idx == Min(c.groupIndex, NumGroups - 1)
                  IN  [c1 EXCEPT !.groups[idx + 1] = @ \cup {cid},
                                 !.groupIndex = idx]

\* CIDAllocator.Release
CIDRelease(c, cid) ==
    IF cid \notin c.allocated THEN c
    ELSE LET c1 == [c EXCEPT !.allocated = @ \ {cid}]
         IN  IF cid \notin DOMAIN c.cidGroup THEN c1
             ELSE LET idx == c.cidGroup[cid]
                  IN  [c1 EXCEPT !.groups[idx + 1] = @ \cup {cid},
                                 !.groupIndex = IF idx < @ THEN idx ELSE @]

\* the history of the allocator's calls: the last call, whether the code
\* it released was held, the call before it, and whether an Allocate has
\* failed so far
NoCIDCall ==
    [op |-> "init", arg |-> "", cid |-> "", err |-> NoErr, held |-> FALSE,
     prev |-> [op |-> "init", arg |-> "", held |-> FALSE], failed |-> FALSE]

---------------------------------------------------------------------------
\* The user restriction areas of a Sim (State.UserRestrictionAreas): a list
\* of slots, each the record [Deleted, text] of an av.RestrictionArea.  A
\* deleted slot keeps its place in the list.

\* av.MaxRestrictionAreas, cut down
MaxRestrictionAreas == 2

ErrInvalidRestrictionAreaIndex == "ErrInvalidRestrictionAreaIndex"
ErrTooManyRestrictionAreas == "ErrTooManyRestrictionAreas"

\* av.RestrictionArea{Deleted: true}
DeletedRestrictionArea == [Deleted |-> TRUE, text |-> ""]

\* the restriction areas a client may send: the Deleted field is part of
\* the argument
RestrictionAreaInputs ==
    {[Deleted |-> FALSE, text |-> "a"], [Deleted |-> FALSE, text |-> "b"],
     [Deleted |-> TRUE, text |-> "c"]}

\* the 1-based indices a client may send
IndexInputs == 0..(MaxRestrictionAreas + 1)

\* the index check without the test of the Deleted flag
CheckRestrictionAreaRange(list, idx) ==
    IF idx - 1 < 0 \/ idx - 1 >= Len(list) THEN ErrInvalidRestrictionAreaIndex
    ELSE NoErr

\* UpdateRestrictionArea and DeleteRestrictionArea: the check of the
\* 1-based index idx against the list
CheckRestrictionAreaIndex(list, idx) ==
    IF idx - 1 < 0 \/ idx - 1 >= Len(list) THEN ErrInvalidRestrictionAreaIndex
    ELSE IF list[idx].Deleted THEN ErrInvalidRestrictionAreaIndex
    ELSE NoErr

\* CreateRestrictionArea: the 1-based slot chosen, the first deleted one or
\* the one after the last; 0 when the list is full
FreeRestrictionAreaSlot(list) ==
    IF \E i \in DOMAIN list : list[i].Deleted
    THEN CHOOSE i \in DOMAIN list :
            list[i].Deleted /\ \A j \in 1..(i - 1) : ~list[j].Deleted
    ELSE IF Len(list) < MaxRestrictionAreas THEN Len(list) + 1
    ELSE 0

\* the assignment to slot idx, or the append that makes it
StoreRestrictionArea(list, idx, ra) ==
    IF idx <= Len(list) THEN [list EXCEPT ![idx] = ra]
    ELSE Append(SubSeq(list, 1, idx - 1), ra)

\* the call of each RPC task: its method, arguments, position (idle,
\* checked: past the index check and before the store, done), result, and
\* whether the task's call before it was a successful delete of the same
\* index
NoAreaCall ==
    [op |-> "none", idx |-> 0, ra |-> DeletedRestrictionArea, pc |-> "idle",
     err |-> NoErr, ret |-> 0, again |-> FALSE]

---------------------------------------------------------------------------
\* Sim.GetSerializeSim in steps.  The call is the record
\*   pc        idle, ranging (inside the loop over humanControllers), returned
\*   occupied  the keys of humanControllers when the call was made
\*   visited   the keys the loop has produced
\*   value     the Sim value returned: a copy of the Sim's fields, State
\*             being the pointer to the State of the live Sim
NoSerializeCall ==
    [pc |-> "idle", occupied |-> {}, visited |-> {}, value |-> NewSimState]

\* the body of GetSerializeSim's loop for the key ctrl:
\* delete(ss.State.Controllers, ctrl), ss.State being s.State
DeleteSerializedController(s, ctrl) == [s EXCEPT !.controllers = @ \ {ctrl}]

\* the Sim that loading a serialized Sim value and Sim.Activate give:
\* humanControllers is unexported and made anew, State.HumanControllers is
\* set to nil, State.Controllers, SignOnPositions and Instructors are the
\* serialized ones
ActivateSerialized(v, now) ==
    [v EXCEPT !.humans = {}, !.humanControllers = EmptyMap, !.HumanControllers = <<>>,
              !.eventStream = NewEventStream, !.lastUpdateTime = now]

---------------------------------------------------------------------------
\* Recovery barriers: the methods the RPC server calls, each in a task of its
\* own, and the ones that start with defer CatchAndReportCrash()

MaxPanics == 2

\* the methods of Dispatcher; every one defers sd.sm.lg.CatchAndReportCrash()
DispatcherMethods ==
    {"GetWorldUpdate", "SignOff", "ChangeControlPosition", "TakeOrReturnLaunchControl",
     "SetSimRate", "SetLaunchConfig", "TogglePause", "SetScratchpad",
     "SetSecondaryScratchpad", "AutoAssociateFP", "SetGlobalLeaderLine", "InitiateTrack",
     "CreateUnsupportedTrack", "UploadFlightPlan", "DropTrack", "HandoffTrack",
     "RedirectHandoff", "AcceptRedirectedHandoff", "AcceptHandoff", "CancelHandoff",
     "ForceQL", "GlobalMessage", "PointOut", "AcknowledgePointOut", "RecallPointOut",
     "RejectPointOut", "ToggleSPCOverride", "ReleaseDeparture", "SetTemporaryAltitude",
     "SetPilotReportedAltitude", "ToggleDisplayModeCAltitude", "DeleteAllAircraft",
     "RunAircraftCommands", "LaunchAircraft", "CreateDeparture", "CreateArrival",
     "CreateOverflight", "CreateRestrictionArea", "UpdateRestrictionArea",
     "DeleteRestrictionArea", "GetVideoMapLibrary"}

\* the methods of SimManager that have an RPC name ("SimManager.NewSim", ...)
SimManagerRPCs ==
    {"NewSim", "ConnectToSim", "AddLocal", "Connect", "GetAvailableWX", "GetRunningSims",
     "GetSerializeSim", "Broadcast", "GetAllVoices", "TextToSpeech", "GetMETAR",
     "GetTimeIntervals", "GetPrecipURL", "GetAtmosGrid"}

\* the methods of SimManager that defer sm.lg.CatchAndReportCrash()
SimManagerBarriers == {"GetMETAR", "GetTimeIntervals", "GetPrecipURL", "GetAtmosGrid"}

\* the entry points: the RPC methods by receiver, and the driver task
EntryPoints ==
    ({"Dispatcher"} \X DispatcherMethods) \cup ({"SimManager"} \X SimManagerRPCs)

\* the entry point starts with defer CatchAndReportCrash()
HasBarrier(entry) ==
    \/ entry[1] = "Dispatcher"
    \/ entry[1] = "SimManager" /\ entry[2] \in SimManagerBarriers
    \/ entry[1] = "driver"

\* the server process: alive, the number of panics its barriers caught, the
\* entry point of the last panic
NewProcess == [alive |-> TRUE, caught |-> 0, last |-> <<"", "">>]

\* Logger.CatchAndReportCrash, deferred: recover() ends the panic, the crash
\* is logged and the task returns from the function that deferred it
CatchAndReportCrash(p, entry) == [p EXCEPT !.caught = @ + 1, !.last = entry]

\* a panic that reaches the top of its task ends the program
Crash(p, entry) == [p EXCEPT !.alive = FALSE, !.last = entry]

\* a panic below the entry point
Panic(p, entry) ==
    IF HasBarrier(entry) THEN CatchAndReportCrash(p, entry) ELSE Crash(p, entry)

---------------------------------------------------------------------------
\* Per-aircraft advancement: the once-a-second part of Sim.updateState.  An
\* aircraft record has, in addition to the fields above,
\*   ControllingController, Scratchpad, SecondaryScratchpad
\*   HoldForRelease, Released, WaitingForLaunch
\*   Route          the waypoints ahead; Aircraft.Update passes the first
\*   GoAround       GoAroundDistance is set and the aircraft is inside it
\*   CheckIn        DepartureContactAltitude is set and reached
\*   Far            the aircraft is more than 250 nm from the center
\*   Advanced       history: the calls of Aircraft.Update, modulo 2
\* and the Sim has lastSimUpdate and FutureControllerContacts.

\* a waypoint with none of the fields updateState looks at
PlainWaypoint ==
    [HumanHandoff |-> FALSE, TCPHandoff |-> "", TransferComms |-> FALSE,
     PrimaryScratchpad |-> "", ClearPrimaryScratchpad |-> FALSE,
     SecondaryScratchpad |-> "", ClearSecondaryScratchpad |-> FALSE,
     PointOut |-> "", Delete |-> FALSE, Land |-> FALSE]
\* the seconds after which handoffTrack and pointOut have the offer accepted
\* automatically
WaypointAcceptDelay == 1

\* Sim.handoffTrack
handoffTrack(s, from, to, callsign) ==
    [s EXCEPT
        !.Aircraft[callsign].HandoffTrackController = to,
        !.Handoffs = Put(@, callsign,
                         [AutoAcceptTime |-> TimeAdd(s.SimTime, WaypointAcceptDelay * Second)]),
        !.eventStream = Post(@, Event("OfferedHandoffEvent", from, to, callsign))]

\* Sim.pointOut
pointOut(s, callsign, from, to) ==
    [s EXCEPT
        !.PointOuts = Put(@, callsign,
                          [FromController |-> from, ToController |-> to,
                           AcceptTime |-> TimeAdd(s.SimTime, WaypointAcceptDelay * Second)]),
        !.eventStream = Post(@, Event("PointOutEvent", from, to, callsign))]

\* the scratchpad fields of a passed waypoint applied whoever controls the
\* aircraft
ApplyScratchpadsAlways(s, ac, wp) ==
    [ac EXCEPT
        !.Scratchpad = IF wp.ClearPrimaryScratchpad THEN ""
                       ELSE IF wp.PrimaryScratchpad # "" THEN wp.PrimaryScratchpad
                       ELSE @,
        !.SecondaryScratchpad = IF wp.ClearSecondaryScratchpad THEN ""
                                ELSE IF wp.SecondaryScratchpad # ""
                                THEN wp.SecondaryScratchpad
                                ELSE @]

\* updateState: the scratchpad fields of a passed waypoint
ApplyScratchpads(s, ac, wp) ==
    IF ~isActiveHumanController(s, ac.ControllingController)
    THEN [ac EXCEPT
            !.Scratchpad = IF wp.ClearPrimaryScratchpad THEN ""
                           ELSE IF wp.PrimaryScratchpad # "" THEN wp.PrimaryScratchpad
                           ELSE @,
            !.SecondaryScratchpad = IF wp.ClearSecondaryScratchpad THEN ""
                                    ELSE IF wp.SecondaryScratchpad # ""
                                    THEN wp.SecondaryScratchpad
                                    ELSE @]
    ELSE ac

\* State.ResolveController: the position itself, which nobody else covers
ResolveController(s, tcp) == tcp

\* State.DeleteAircraft
StateDeleteAircraft(s, callsign) == [s EXCEPT !.Aircraft = Remove(@, callsign)]

\* Aircraft.Update: the aircraft moves; it passes the first waypoint of its
\* route or none.  The result is the aircraft and the waypoint passed.
AircraftUpdate(ac, passes) ==
    IF passes /\ ac.Route # <<>>
    THEN [ac |-> [ac EXCEPT !.Route = Tail(@), !.Advanced = 1 - @],
          passed |-> TRUE, wp |-> Head(ac.Route)]
    ELSE [ac |-> [ac EXCEPT !.Advanced = 1 - @], passed |-> FALSE, wp |-> PlainWaypoint]

\* updateState, the waypoint passed: the handoff it asks for
WaypointHandoff(s, ac, callsign, wp) ==
    IF wp.HumanHandoff
    THEN handoffTrack(s, ac.TrackingController,
                      ResolveController(s, ac.WaypointHandoffController), callsign)
    ELSE IF wp.TCPHandoff # ""
    THEN handoffTrack(s, ac.TrackingController, wp.TCPHandoff, callsign)
    ELSE s

\* updateState, the waypoint passed: enqueueControllerContact on
\* TransferComms
WaypointTransferComms(s, ac, callsign, wp) ==
    IF wp.TransferComms
    THEN [s EXCEPT !.FutureControllerContacts =
              Append(@, [Callsign |-> callsign,
                         TCP |-> ResolveController(s, ac.WaypointHandoffController)])]
    ELSE s

\* updateState, the waypoint passed: its scratchpads
WaypointScratchpads(s, callsign, wp) ==
    [s EXCEPT !.Aircraft[callsign] = ApplyScratchpads(s, @, wp)]

\* updateState, the waypoint passed: Delete and Land
WaypointRemoval(s, callsign, wp) ==
    IF wp.Delete \/ wp.Land THEN StateDeleteAircraft(s, callsign) ELSE s

\* updateState, the waypoint passed: the point-out, after which the loop
\* over the aircraft is left, or else Delete and Land
WaypointPointOut(s, ac, callsign, wp) ==
    IF /\ wp.PointOut # ""
       /\ wp.PointOut \in s.controllers
       /\ ~isActiveHumanController(s, ac.ControllingController)
    THEN [sim |-> pointOut(s, callsign, ac.ControllingController, wp.PointOut),
          broke |-> TRUE]
    ELSE [sim |-> WaypointRemoval(s, callsign, wp), broke |-> FALSE]

\* updateState, what it does with the waypoint an aircraft has passed.  The
\* result is the Sim and whether the loop over the aircraft was left.
HandlePassedWaypoint(s, callsign, wp) ==
    WaypointPointOut(
        WaypointScratchpads(
            WaypointTransferComms(
                WaypointHandoff(s, s.Aircraft[callsign], callsign, wp),
                s.Aircraft[callsign], callsign, wp),
            callsign, wp),
        s.Aircraft[callsign], callsign, wp)

\* the aircraft ac, which the loop variable points to and which may have
\* left State.Aircraft, changed in place
InPlace(s, callsign, ac) ==
    [s EXCEPT !.Aircraft = IF callsign \in DOMAIN @ THEN [@ EXCEPT ![callsign] = ac]
                           ELSE @]

\* updateState: the go-around; Sim.goAround hands the aircraft back to the
\* departure controller
CheckGoAround(s, callsign, ac) ==
    IF ac.GoAround
    THEN [InPlace(s, callsign,
                  [ac EXCEPT !.GoAround = FALSE, !.ControllingController = s.primary])
             EXCEPT !.eventStream =
                 Post(@, Event("RadioTransmissionEvent", "", s.primary, callsign))]
    ELSE s

\* updateState: the departure check-in
CheckDepartureContact(s, callsign, ac) ==
    IF ac.CheckIn /\ ~s.prespawn
    THEN [InPlace(s, callsign,
                  [ac EXCEPT !.CheckIn = FALSE,
                             !.ControllingController =
                                 ResolveController(s, ac.DepartureContactController)])
             EXCEPT !.eventStream =
                 Post(@, Event("RadioTransmissionEvent", "",
                               ResolveController(s, ac.DepartureContactController),
                               callsign))]
    ELSE s

\* updateState: far-away aircraft are culled
CheckFarAway(s, callsign, ac) ==
    IF ac.Far THEN StateDeleteAircraft(s, callsign) ELSE s

\* the aircraft after the go-around, as the check-in finds it
AfterGoAround(s, ac) ==
    IF ac.GoAround
    THEN [ac EXCEPT !.GoAround = FALSE, !.ControllingController = s.primary]
    ELSE ac

\* updateState, the checks that follow the waypoint handling: go-around,
\* departure check-in, far-away culling.  ac is the aircraft the loop
\* variable points to, which may have left State.Aircraft.
TrailingChecks(s, callsign, ac) ==
    CheckFarAway(
        CheckDepartureContact(CheckGoAround(s, callsign, ac), callsign,
                              AfterGoAround(s, ac)),
        callsign, ac)

\* the loop body after the waypoint handling has given h
AfterWaypoint(st, callsign, ac, h) ==
    IF h.broke
    THEN [st EXCEPT !.sim = h.sim, !.advanced = @ \cup {callsign}, !.broke = TRUE]
    ELSE [st EXCEPT !.sim = TrailingChecks(h.sim, callsign,
                                           IF callsign \in DOMAIN h.sim.Aircraft
                                           THEN h.sim.Aircraft[callsign] ELSE ac),
                    !.advanced = @ \cup {callsign},
                    !.checked = @ \cup {callsign}]

\* the loop body after Aircraft.Update has given u on the Sim s
AfterAircraftUpdate(st, s, callsign, u) ==
    AfterWaypoint(st, callsign, u.ac,
                  IF u.passed THEN HandlePassedWaypoint(s, callsign, u.wp)
                  ELSE [sim |-> s, broke |-> FALSE])

\* the loop body on an aircraft that is not skipped
AdvanceFlying(st, callsign, u) ==
    AfterAircraftUpdate(st, [st.sim EXCEPT !.Aircraft[callsign] = u.ac], callsign, u)

\* the aircraft the loop skips
SkippedAircraft(ac) == (ac.HoldForRelease /\ ~ac.Released) \/ ac.WaitingForLaunch

\* updateState, the body of the loop over State.Aircraft for one aircraft;
\* st is the Sim, the aircraft Aircraft.Update was called on, the ones the
\* trailing checks were made on, and whether a break has ended the loop
AdvanceAircraft(st, callsign, passes) ==
    IF st.broke \/ callsign \notin DOMAIN st.sim.Aircraft THEN st
    ELSE IF SkippedAircraft(st.sim.Aircraft[callsign]) THEN st
    ELSE AdvanceFlying(st, callsign, AircraftUpdate(st.sim.Aircraft[callsign], passes))

\* for callsign, ac := range s.State.Aircraft, in an order of Go's choosing;
\* passes tells which aircraft reach their next waypoint in this second
RECURSIVE AdvanceAll(_, _, _)
AdvanceAll(st, order, passes) ==
    IF order = <<>> THEN st
    ELSE AdvanceAll(AdvanceAircraft(st, Head(order), Head(order) \in passes),
                    Tail(order), passes)

\* the zero time.Time, earlier than every SimTime
ZeroTime == MakeTime(-1, 0)

\* what one one-second step did: the Sim when updateState was entered and
\* when it returned, the events its handoff and point-out loops posted, the
\* aircraft advanced, the aircraft checked, and whether the loop was left
FullStepRecord(s, r, st) ==
    [before |-> s, after |-> st.sim, posted |-> r.posted,
     advanced |-> st.advanced, checked |-> st.checked, broke |-> st.broke]

\* updateState from the test of lastSimUpdate on, r being what the handoff
\* and point-out loops gave
AdvanceDue(s, r, order, passes) ==
    IF ~TimeAfter(TimeAdd(r.sim.lastSimUpdate, Second), s.SimTime)
    THEN FullStepRecord(s, r,
             AdvanceAll([sim |-> [r.sim EXCEPT !.lastSimUpdate = s.SimTime],
                         advanced |-> {}, checked |-> {}, broke |-> FALSE],
                        order, passes))
    ELSE FullStepRecord(s, r,
             [sim |-> r.sim, advanced |-> {}, checked |-> {}, broke |-> FALSE])

\* Sim.updateState in full: the handoffs, the point-outs and, once a
\* second, the aircraft.  The result is the record of the step.
updateStateFull(s, order, passes) == AdvanceDue(s, updateState(s, order), order, passes)

\* Sim.Update, the loop of ns one-second steps with updateState in full
RECURSIVE RunStepsFull(_, _, _, _, _)
RECURSIVE RunStepsAfter(_, _, _, _, _)
RunStepsFull(s, ns, order, passes, steps) ==
    IF ns <= 0 THEN [sim |-> s, steps |-> steps]
    ELSE RunStepsAfter(updateStateFull([s EXCEPT !.SimTime = TimeAdd(@, Second)],
                                       order, passes),
                       ns, order, passes, steps)
\* the loop after the step st
RunStepsAfter(st, ns, order, passes, steps) ==
    RunStepsFull(st.after, ns - 1, order, passes, Append(steps, st))

\* the end of Sim.Update: the slop and lastUpdateTime
UpdateReturn(now, elapsed, r) ==
    [sim |-> [r.sim EXCEPT
                !.updateTimeSlop = elapsed - TruncateSecond(elapsed),
                !.lastUpdateTime = now],
     steps |-> r.steps]

\* Sim.Update from the computation of elapsed on
UpdateElapsed(s, now, elapsed, order, passes) ==
    UpdateReturn(now, elapsed,
                 RunStepsFull(s, WholeSeconds(TruncateSecond(elapsed)), order, passes,
                              <<>>))

\* Sim.Update at wall-clock time now, with updateState in full
SimUpdateFull(s, now, order, passes) ==
    IF s.paused \/ ~isActiveHumanController(s, s.primary)
    THEN [sim |-> s, steps |-> <<>>]
    ELSE UpdateElapsed(s, now,
                       ScaleElapsed(s.SimRate, now - s.lastUpdateTime)
                           + s.updateTimeSlop,
                       order, passes)

---------------------------------------------------------------------------
Call(op, err) == [op |-> op, err |-> err]

NoResume == [at |-> 0, first |-> TRUE]

\* no event posted yet, no driver task inside CullIdleControllers, a new
\* CIDAllocator, no restriction area, no GetSerializeSim call, a server
\* process that has caught no panic, a Sim running since wall-clock time 0
InitExt ==
    /\ events = <<>>
    /\ cull = <<>>
    /\ cids = NewCIDAllocator
    /\ cidCall = NoCIDCall
    /\ areas = <<>>
    /\ areaCall = [t \in RPCTasks |-> NoAreaCall]
    /\ serial = NoSerializeCall
    /\ proc = NewProcess
    /\ resume = NoResume

Init ==
    /\ local \in BOOLEAN
    /\ simSessions = EmptyMap
    /\ sessionsByToken = EmptyMap
    /\ sessions = <<>>
    /\ nextToken = 0
    /\ bgIdle \in {0, BgSessions}
    /\ signedOff = {}
    /\ lastCall = Call("init", NoErr)
    /\ aircraft = NewAircraft
    /\ call = [c \in Callers |-> NoCall]
    /\ applied = <<>>
    /\ holder = [l \in Locks |-> NoTask]
    /\ prog = [t \in Tasks |-> <<>>]
    /\ fullSim = NewSimState
    /\ wall = 0
    /\ trace = NoTrace
    /\ InitExt

\* SimManager.NewSim
NewSim(name, password, valid, split, instructor) ==
    /\ Len(sessions) < MaxSessions \/ (name \in DOMAIN simSessions /\ name # "")
    /\ nextToken < MaxTokens
    /\ IF ~valid
       THEN /\ lastCall' = Call("NewSim", ErrInvalidSSimConfiguration)
            /\ UNCHANGED mgrVars
       ELSE LET r == Add(name, password, makeSimConfiguration(split), instructor) IN
            /\ simSessions' = r.reg
            /\ sessionsByToken' = r.tok
            /\ sessions' = r.ses
            /\ nextToken' = r.issued
            /\ lastCall' = Call("NewSim", r.err)
            /\ UNCHANGED <<local, bgIdle, signedOff>>
    /\ UNCHANGED taskVars

\* SimManager.ConnectToSim, as an RPC
ConnectToSimRPC(name, pos, password) ==
    /\ nextToken < MaxTokens
    /\ LET r == ConnectToSim(name, pos, password) IN
       /\ sessionsByToken' = r.tok
       /\ sessions' = r.ses
       /\ nextToken' = r.issued
       /\ lastCall' = Call("ConnectToSim", r.err)
    /\ UNCHANGED <<local, simSessions, bgIdle, signedOff>>
    /\ UNCHANGED taskVars

\* SimManager.SignOff (Dispatcher.SignOff)
SignOff(token) ==
    LET r == signOff(sessionsByToken, sessions, token) IN
    /\ sessionsByToken' = r.tok
    /\ sessions' = r.ses
    /\ signedOff' = IF token \in DOMAIN sessionsByToken THEN signedOff \cup {token}
                    ELSE signedOff
    /\ lastCall' = Call("SignOff", r.err)
    /\ UNCHANGED <<local, simSessions, nextToken, bgIdle>>
    /\ UNCHANGED taskVars

\* Dispatcher.ChangeControlPosition
ChangeControlPosition(token, toTCP) ==
    LET c == lookupController(sessionsByToken, token) IN
    /\ IF ~c.ok
       THEN /\ lastCall' = Call("ChangeControlPosition", ErrNoSimForControllerToken)
            /\ UNCHANGED sessions
       ELSE LET r == SimChangeControlPosition(sessions[c.session].sim, c.tcp, toTCP) IN
            /\ sessions' = [sessions EXCEPT ![c.session].sim = r.sim]
            /\ lastCall' = Call("ChangeControlPosition", r.err)
    /\ UNCHANGED <<local, simSessions, sessionsByToken, nextToken, bgIdle, signedOff>>
    /\ UNCHANGED taskVars

\* Dispatcher.TogglePause
TogglePause(token) ==
    LET c == lookupController(sessionsByToken, token) IN
    /\ IF ~c.ok
       THEN /\ lastCall' = Call("TogglePause", ErrNoSimForControllerToken)
            /\ UNCHANGED sessions
       ELSE /\ sessions' = [sessions EXCEPT ![c.session].sim = SimTogglePause(@)]
            /\ lastCall' = Call("TogglePause", NoErr)
    /\ UNCHANGED <<local, simSessions, sessionsByToken, nextToken, bgIdle, signedOff>>
    /\ UNCHANGED taskVars

\* SimManager.GetStateUpdate
GetStateUpdate(token) ==
    /\ IF token \notin DOMAIN sessionsByToken
       THEN /\ lastCall' = Call("GetStateUpdate", ErrNoSimForControllerToken)
            /\ UNCHANGED sessions
       ELSE LET ctrl == sessionsByToken[token] IN
            /\ sessions' = [sessions EXCEPT ![ctrl.session] = GotUpdateCallForTCP(@, ctrl.tcp)]
            /\ lastCall' = Call("GetStateUpdate", NoErr)
    /\ UNCHANGED <<local, simSessions, sessionsByToken, nextToken, bgIdle, signedOff>>
    /\ UNCHANGED taskVars

\* SimManager.GetSerializeSim
GetSerializeSim(token) ==
    LET c == lookupController(sessionsByToken, token) IN
    /\ IF ~c.ok
       THEN /\ lastCall' = Call("GetSerializeSim", ErrNoSimForControllerToken)
            /\ UNCHANGED sessions
       ELSE /\ sessions' = [sessions EXCEPT ![c.session].sim = SimGetSerializeSim(@)]
            /\ lastCall' = Call("GetSerializeSim", NoErr)
    /\ UNCHANGED <<local, simSessions, sessionsByToken, nextToken, bgIdle, signedOff>>
    /\ UNCHANGED taskVars

\* The driver task's call of simSession.CullIdleControllers (non-local only),
\* made when tcp has been silent for more than 15 s
SilentEviction(sid, tcp) ==
    /\ sessions[sid].running
    /\ ~local
    /\ tcp \in DOMAIN sessions[sid].conns
    /\ LET r == CullIdleControllers(sessionsByToken,
                                    [sessions EXCEPT ![sid].conns[tcp].silent = 2], sid)
       IN /\ sessionsByToken' = r.tok
          /\ sessions' = r.ses
          /\ signedOff' = signedOff \cup (DOMAIN sessionsByToken \ DOMAIN r.tok)
          /\ lastCall' = Call("CullIdleControllers", NoErr)
    /\ UNCHANGED <<local, simSessions, nextToken, bgIdle>>
    /\ UNCHANGED taskVars

\* simIdleLimit passes without a refresh of the Sim's lastUpdateTime: its
\* driver task is not running, or every Sim.Update it made returned early
IdleLimitPasses(sid) ==
    /\ ~sessions[sid].destroyed
    /\ ~sessions[sid].sim.idle
    /\ ~(sessions[sid].running /\ SimUpdates(sessions[sid].sim))
    /\ sessions' = [sessions EXCEPT ![sid].sim.idle = TRUE]
    /\ lastCall' = Call("IdleLimitPasses", NoErr)
    /\ UNCHANGED <<local, simSessions, sessionsByToken, nextToken, bgIdle, signedOff>>
    /\ UNCHANGED taskVars

\* The end of the driver task: SimShouldExit, Sim.Destroy, then the removal of
\* the session's tokens and of its name from the registries
Teardown(sid) ==
    /\ sessions[sid].running
    /\ SimShouldExit(sid)
    /\ sessions' = [sessions EXCEPT ![sid].running = FALSE, ![sid].destroyed = TRUE]
    /\ sessionsByToken' = [t \in {x \in DOMAIN sessionsByToken :
                                     sessionsByToken[x].session # sid} |-> sessionsByToken[t]]
    /\ simSessions' = Remove(simSessions, sessions[sid].name)
    /\ lastCall' = Call("Teardown", NoErr)
    /\ UNCHANGED <<local, nextToken, bgIdle, signedOff>>
    /\ UNCHANGED taskVars

Next ==
    \/ \E name \in Names, password \in Passwords, valid \in BOOLEAN, split \in {"ok", "bad"} :
          NewSim(name, password, valid, split, FALSE)
    \/ \E name \in Names, pos \in PositionInputs, password \in Passwords :
          ConnectToSimRPC(name, pos, password)
    \/ \E token \in TokenInputs : SignOff(token)
    \/ \E token \in TokenInputs, toTCP \in PositionInputs : ChangeControlPosition(token, toTCP)
    \/ \E token \in TokenInputs : GetStateUpdate(token)
    \/ \E sid \in DOMAIN sessions, tcp \in PositionInputs : SilentEviction(sid, tcp)
    \/ \E sid \in DOMAIN sessions : IdleLimitPasses(sid)
    \/ \E sid \in DOMAIN sessions : Teardown(sid)

Spec == Init /\ [][Next]_vars

\* Every token-taking handler, on sessions without passwords
NextRPC ==
    \/ \E name \in Names : NewSim(name, "", TRUE, "ok", FALSE)
    \/ \E name \in Names, pos \in PositionInputs : ConnectToSimRPC(name, pos, "")
    \/ \E token \in TokenInputs : SignOff(token)
    \/ \E token \in TokenInputs, toTCP \in PositionInputs : ChangeControlPosition(token, toTCP)
    \/ \E token \in TokenInputs : TogglePause(token)
    \/ \E token \in TokenInputs : GetStateUpdate(token)
    \/ \E token \in TokenInputs : GetSerializeSim(token)
    \/ \E sid \in DOMAIN sessions : IdleLimitPasses(sid)
    \/ \E sid \in DOMAIN sessions : Teardown(sid)

SpecRPC == Init /\ [][NextRPC]_vars

---------------------------------------------------------------------------
\* The registry and its tokens.

SignedOnAt(t) == sessionsByToken[t].tcp \in sessions[sessionsByToken[t].session].sim.humans

\* C1: a token is in sessionsByToken if and only if the (position, session)
\* pair it maps to is a human controller signed on to that session's Sim at
\* exactly that position: every token's position is signed on in its
\* session's Sim, and every position signed on in a running session's Sim is
\* the position of one of that session's tokens.
C1_TokenIffSignedOn ==
    /\ \A t \in DOMAIN sessionsByToken : SignedOnAt(t)
    /\ \A sid \in DOMAIN sessions :
          sessions[sid].running =>
             \A p \in sessions[sid].sim.humans :
                \E t \in DOMAIN sessionsByToken :
                   sessionsByToken[t] = [tcp |-> p, session |-> sid]

RegistryUnchanged == UNCHANGED <<simSessions, sessionsByToken, sessions, nextToken>>

\* C2: a token-taking handler called with a token that is not in
\* sessionsByToken returns ErrNoSimForControllerToken and changes no session
\* or registry state.
C2_UnknownTokenRejected ==
    [][\A token \in TokenInputs :
          (token \notin DOMAIN sessionsByToken /\
              (\/ SignOff(token)
               \/ \E toTCP \in PositionInputs : ChangeControlPosition(token, toTCP)
               \/ TogglePause(token)
               \/ GetStateUpdate(token)
               \/ GetSerializeSim(token)))
          => (lastCall'.err = ErrNoSimForControllerToken /\ RegistryUnchanged)]_vars

\* A handler has just rejected a token that was never issued while another
\* token is signed on
C2_Witness ==
    /\ lastCall.op \in {"ChangeControlPosition", "TogglePause", "GetSerializeSim"}
    /\ lastCall.err = ErrNoSimForControllerToken
    /\ DOMAIN sessionsByToken # {}

\* C3: a token that SignOff has removed is never valid again, whatever NewSim
\* and ConnectToSim calls follow: it is never again a key of sessionsByToken,
\* and a further SignOff of it returns ErrNoSimForControllerToken.
C3_SignedOffTokenStaysInvalid ==
    [][\A t \in signedOff :
          /\ t \notin DOMAIN sessionsByToken'
          /\ SignOff(t) => lastCall'.err = ErrNoSimForControllerToken]_vars

\* A signed-off token has been presented to SignOff again after a later token
\* was issued
C3_Witness ==
    /\ lastCall = Call("SignOff", ErrNoSimForControllerToken)
    /\ \E t \in signedOff : \E u \in DOMAIN sessionsByToken : u > t

\* C4: Add with a non-empty name that is already a key of simSessions fails
\* with ErrDuplicateSimName and leaves the registries and every session as
\* they were.
C4_DuplicateNameRejected ==
    [][\A name \in Names \ {""}, password \in Passwords, split \in {"ok", "bad"} :
          (name \in DOMAIN simSessions /\ NewSim(name, password, TRUE, split, FALSE))
          => (lastCall'.err = ErrDuplicateSimName /\ RegistryUnchanged)]_vars

\* NewSim has just been refused for a duplicate name while the session of
\* that name has a controller signed on
C4_Witness ==
    /\ lastCall = Call("NewSim", ErrDuplicateSimName)
    /\ \E t \in DOMAIN sessionsByToken :
          sessions[sessionsByToken[t].session].name # "" /\ SignedOnAt(t)

SignOnErrors == {ErrControllerAlreadySignedIn, ErrInvalidController, ErrNoController}

---------------------------------------------------------------------------
\* RunAircraftCommands, one command token per step.

\* the command tokens that callers type
CmdTokens ==
    {<<"H", "0", "9", "0">>, <<"S", "2", "5", "0">>, <<"Z", "Z", "Z">>, <<"C", "5", "0">>, <<"H">>, <<"H", "X", "X">>, <<"H", "4", "0", "0">>, <<"X">>, <<"T", "1", "0", "L">>,
     <<"C", "A", "B", "C", "/", "A", "5", "0", "/", "S", "2", "1", "0">>, <<"C", "A", "B", "C", "/", "A", "5", "0", "/", "S", "X">>}

\* the separators between them
Separators == {<<" ">>, <<" ", " ">>}

SeqsUpTo(S, n) == UNION {[1..k -> S] : k \in 0..n}

\* RunAircraftCommands up to the loop: LookupController and strings.Fields
RunAircraftCommands(c, token, toks, sep) ==
    /\ call[c].pc = "idle"
    /\ LET ctrl == lookupController(sessionsByToken, token)
           input == Join(toks, sep)
           commands == Fields(input)
           entered == [NoCall EXCEPT !.token = token, !.toks = toks, !.input = input,
                                     !.ac0 = aircraft]
       IN  call' = [call EXCEPT ![c] =
                      IF ~ctrl.ok
                      THEN [entered EXCEPT !.pc = "done", !.err = ErrNoSimForControllerToken]
                      ELSE IF commands = <<>> THEN [entered EXCEPT !.pc = "done"]
                      ELSE [entered EXCEPT !.pc = "loop", !.commands = commands, !.i = 1]]
    /\ UNCHANGED <<mgrVars, simVars, extVars, lastCall, aircraft, applied, lockVars>>

\* The aircraft after the command tokens toks[1..n], applied one after the
\* other to ac
RECURSIVE RunPrefix(_, _, _)
RunPrefix(ac, toks, n) ==
    IF n = 0 THEN ac ELSE ExecCommand(RunPrefix(ac, toks, n - 1), toks[n]).ac

\* rewriteError that leaves the failing token out of the remaining input
rewriteErrorAfterToken(k, err) ==
    [ErrorMessage |-> IF err # NoErr THEN err ELSE k.result.ErrorMessage,
     RemainingInput |-> Join(SubSeq(k.commands, k.i + 1, Len(k.commands)), <<" ">>)]

\* rewriteError
rewriteError(k, err) ==
    [ErrorMessage |-> IF err # NoErr THEN err ELSE k.result.ErrorMessage,
     RemainingInput |-> Join(SubSeq(k.commands, k.i, Len(k.commands)), <<" ">>)]

\* A loop iteration whose Sim call works on the aircraft as it was when
\* RunAircraftCommands was entered and writes the result back
CommandStepOnSnapshot(c) ==
    /\ call[c].pc = "loop"
    /\ LET k == call[c]
           r == ExecCommand(RunPrefix(k.ac0, k.commands, k.i - 1), k.commands[k.i])
       IN  /\ aircraft' = r.ac
           /\ IF r.err # NoErr
              THEN /\ call' = [call EXCEPT ![c].pc = "done",
                                           ![c].result = rewriteError(k, r.err)]
                   /\ UNCHANGED applied
              ELSE /\ call' = [call EXCEPT ![c].i = k.i + 1,
                                           ![c].pc = IF k.i = Len(k.commands) THEN "done"
                                                     ELSE "loop"]
                   /\ applied' = Append(applied, [caller |-> c, index |-> k.i,
                                                  method |-> r.method])
    /\ UNCHANGED <<mgrVars, simVars, extVars, lastCall, lockVars>>

\* One iteration of the loop over commands, and the return after the last
CommandStep(c) ==
    /\ call[c].pc = "loop"
    /\ LET k == call[c]
           r == ExecCommand(aircraft, k.commands[k.i])
       IN  /\ aircraft' = r.ac
           /\ IF r.err # NoErr
              THEN /\ call' = [call EXCEPT ![c].pc = "done",
                                           ![c].result = rewriteError(k, r.err)]
                   /\ UNCHANGED applied
              ELSE /\ call' = [call EXCEPT ![c].i = k.i + 1,
                                           ![c].pc = IF k.i = Len(k.commands) THEN "done"
                                                     ELSE "loop"]
                   /\ applied' = Append(applied, [caller |-> c, index |-> k.i,
                                                  method |-> r.method])
    /\ UNCHANGED <<mgrVars, simVars, extVars, lastCall, lockVars>>

\* One session "a" with its primary position P1 (token 1) and P2 (token 2)
\* signed on
InitCmd ==
    LET sim == SimSignOn(SimSignOn(NewSimObject(PrimaryPosition), "P1", FALSE).sim,
                         "P2", FALSE).sim
        ss == [name |-> "a", password |-> "", sim |-> sim, conns |-> EmptyMap,
               running |-> TRUE, destroyed |-> FALSE]
    IN  /\ local = FALSE
        /\ simSessions = Put(EmptyMap, "a", 1)
        /\ sessionsByToken = <<[tcp |-> "P1", session |-> 1], [tcp |-> "P2", session |-> 1]>>
        /\ sessions = <<AddHumanController(AddHumanController(ss, "P1", 1), "P2", 2)>>
        /\ nextToken = 2
        /\ bgIdle = 0
        /\ signedOff = {}
        /\ lastCall = Call("init", NoErr)
        /\ aircraft = NewAircraft
        /\ call = [c \in Callers |-> NoCall]
        /\ applied = <<>>
        /\ holder = [l \in Locks |-> NoTask]
        /\ prog = [t \in Tasks |-> <<>>]
        /\ fullSim = NewSimState
        /\ wall = 0
        /\ trace = NoTrace
        /\ InitExt

NextCmd ==
    \/ \E token \in {0, 1}, toks \in SeqsUpTo(CmdTokens, MaxCmds), sep \in Separators :
          RunAircraftCommands("c1", token, toks, sep)
    \/ CommandStep("c1")

SpecCmd == InitCmd /\ [][NextCmd]_vars


\* the tokens of toks that fail when their turn comes
FailingTokens(ac, toks) ==
    {j \in 1..Len(toks) : ExecCommand(RunPrefix(ac, toks, j - 1), toks[j]).err # NoErr}

AppliedUpTo(c, ac, toks, n) ==
    [j \in 1..n |-> [caller |-> c, index |-> j,
                     method |-> ExecCommand(RunPrefix(ac, toks, j - 1), toks[j]).method]]

\* C6: for a command string of whitespace-separated tokens t1..tn and a valid
\* controller token, RunAircraftCommands applies the tokens in order; when tk
\* is the first token that fails, exactly t1..t(k-1) have been applied,
\* RemainingInput is tk..tn joined by single spaces, ErrorMessage is not empty
\* and the RPC error is nil; when none fails all are applied and RemainingInput
\* and ErrorMessage are empty.
C6_InOrderUntilFirstFailure ==
    LET k == call["c1"]
        n == Len(k.toks)
        failing == FailingTokens(k.ac0, k.toks)
        first == CHOOSE j \in failing : \A h \in failing : j <= h
    IN  /\ (k.pc = "loop") =>
              /\ k.i \in 1..n
              /\ \A j \in 1..(k.i - 1) : j \notin failing
              /\ applied = AppliedUpTo("c1", k.ac0, k.toks, k.i - 1)
              /\ aircraft = RunPrefix(k.ac0, k.toks, k.i - 1)
        /\ (k.pc = "done" /\ k.token \in DOMAIN sessionsByToken) =>
              /\ k.err = NoErr
              /\ IF failing # {}
                 THEN /\ applied = AppliedUpTo("c1", k.ac0, k.toks, first - 1)
                      /\ aircraft = RunPrefix(k.ac0, k.toks, first - 1)
                      /\ k.result.RemainingInput = Join(SubSeq(k.toks, first, n), <<" ">>)
                      /\ k.result.ErrorMessage # ""
                 ELSE /\ applied = AppliedUpTo("c1", k.ac0, k.toks, n)
                      /\ aircraft = RunPrefix(k.ac0, k.toks, n)
                      /\ k.result = [ErrorMessage |-> "", RemainingInput |-> <<>>]

\* "H090  S250  ZZZ" has set heading 090 and speed 250 and reports "ZZZ" as
\* the remaining input with the syntax error
C6_Witness ==
    /\ call["c1"].pc = "done"
    /\ call["c1"].input = Join(<<<<"H", "0", "9", "0">>, <<"S", "2", "5", "0">>, <<"Z", "Z", "Z">>>>, <<" ", " ">>)
    /\ aircraft.heading = 90 /\ aircraft.speed = 250
    /\ call["c1"].result = [ErrorMessage |-> ErrInvalidCommandSyntax, RemainingInput |-> <<"Z", "Z", "Z">>]
    /\ call["c1"].err = NoErr

\* C7: when a command token is rejected, the aircraft and the session are
\* exactly as they were before that token was processed: the failing token,
\* every clause of a composite token included, has no partial effect.
C7_RejectedTokenHasNoEffect ==
    [][\A c \in Callers :
          (CommandStep(c) /\ call'[c].result.ErrorMessage # "")
          => (aircraft' = aircraft /\ applied' = applied /\ UNCHANGED mgrVars)]_vars

\* A cross-fix token whose altitude clause parses and whose speed clause
\* does not has been rejected after an earlier token was applied
C7_Witness ==
    /\ call["c1"].pc = "done"
    /\ call["c1"].toks = <<<<"H", "0", "9", "0">>, <<"C", "A", "B", "C", "/", "A", "5", "0", "/", "S", "X">>>>
    /\ call["c1"].result = [ErrorMessage |-> ErrAtoiSyntax, RemainingInput |-> <<"C", "A", "B", "C", "/", "A", "5", "0", "/", "S", "X">>]
    /\ aircraft = [NewAircraft EXCEPT !.heading = 90]


---------------------------------------------------------------------------
\* Two RunAircraftCommands calls at once, from P1 (token 1) and P2 (token 2).

ConcurrentTokens == {<<"H", "0", "9", "0">>, <<"S", "2", "5", "0">>, <<"H", "1", "8", "0">>, <<"S", "3", "0", "0">>, <<"Z", "Z", "Z">>}

CallerToken(c) == IF c = "c1" THEN 1 ELSE 2

NextConcurrent ==
    \/ \E c \in Callers, toks \in SeqsUpTo(ConcurrentTokens, MaxConcurrentCmds) :
          RunAircraftCommands(c, CallerToken(c), toks, <<" ">>)
    \/ \E c \in Callers : CommandStep(c)

SpecConcurrent == InitCmd /\ [][NextConcurrent]_vars

\* the aircraft states after each Sim call of a log, from ac on
RECURSIVE StatesAfter(_, _)
StatesAfter(ac, log) ==
    IF log = <<>> THEN <<>>
    ELSE LET e == Head(log)
             next == ExecCommand(ac, call[e.caller].toks[e.index]).ac
         IN  <<next>> \o StatesAfter(next, Tail(log))

\* the state changes of a sequence of states that starts from ac
RECURSIVE Changes(_, _)
Changes(ac, states) ==
    IF states = <<>> THEN <<>>
    ELSE IF Head(states) = ac THEN Changes(ac, Tail(states))
    ELSE <<Head(states)>> \o Changes(Head(states), Tail(states))

\* the Sim calls of the whole call of c, run alone from ac
WholeCall(c, ac) ==
    LET toks == call[c].toks
        failing == FailingTokens(ac, toks)
        n == IF failing = {} THEN Len(toks)
             ELSE (CHOOSE j \in failing : \A h \in failing : j <= h) - 1
    IN  [log |-> AppliedUpTo(c, ac, toks, n), ac |-> RunPrefix(ac, toks, n)]

\* the state changes of the whole call of c followed by the whole call of d
SerialChanges(c, d) ==
    LET first == WholeCall(c, NewAircraft)
        second == WholeCall(d, first.ac)
    IN  Changes(NewAircraft, StatesAfter(NewAircraft, first.log \o second.log))

BothDone == \A c \in Callers : call[c].pc = "done"

\* C8 (as claimed): two concurrent RunAircraftCommands calls from two tokens
\* never interleave: the sequence of state changes is the one of running one
\* whole call and then the other, in some order.
C8_WholeCallsSerial ==
    BothDone =>
       Changes(NewAircraft, StatesAfter(NewAircraft, applied))
          \in {SerialChanges("c1", "c2"), SerialChanges("c2", "c1")}

\* C8 (amended): the calls interleave only between command tokens.  Each
\* token is applied whole, the tokens of one call are applied in the order of
\* its string, and the aircraft is always the result of the Sim calls made so
\* far, one after the other in the order they were made.
C8_TokensSerial ==
    /\ \A c \in Callers :
          LET mine == SelectSeq(applied, LAMBDA e : e.caller = c) IN
          /\ \A j \in 1..Len(mine) : mine[j].index = j
          /\ call[c].pc = "loop" => call[c].i = Len(mine) + 1
    /\ LET states == StatesAfter(NewAircraft, applied) IN
       aircraft = IF states = <<>> THEN NewAircraft ELSE states[Len(states)]

\* Both calls have returned, and a token of one was applied between two
\* tokens of the other
C8_Witness ==
    /\ BothDone
    /\ \E i, j, k \in 1..Len(applied) :
          /\ i < j /\ j < k
          /\ applied[i].caller = applied[k].caller
          /\ applied[j].caller # applied[i].caller


---------------------------------------------------------------------------
\* Locking.  An operation is the sequence of its mutex operations and of its
\* accesses to the state a mutex guards: "sm" the registries of SimManager,
\* "ss" connectionsByTCP of the session, "sim" the state of its Sim.  Each
\* step records the method it belongs to.

Step(kind, on, in) == [kind |-> kind, on |-> on, in |-> in]
Touch(on, in) == <<Step("access", on, in)>>
\* mu.Lock ... mu.Unlock around body
Held(on, in, body) == <<Step("lock", on, in)>> \o body \o <<Step("unlock", on, in)>>

\* Sim.signOn, called from the method in
signOnSteps(in) == Held("sim", in, Touch("sim", in))
\* Sim.SignOn: State.GetStateForController is read after signOn has returned
SignOnSteps == signOnSteps("SignOn") \o Touch("sim", "SignOn")
SimSignOffSteps == Held("sim", "SignOff", Touch("sim", "SignOff"))
\* Sim.ChangeControlPosition: only signOn takes the mutex
ChangeControlPositionSteps ==
    Touch("sim", "ChangeControlPosition") \o signOnSteps("ChangeControlPosition")
       \o Touch("sim", "ChangeControlPosition")
TogglePauseSteps == Held("sim", "TogglePause", Touch("sim", "TogglePause"))
SetSimRateSteps == Held("sim", "SetSimRate", Touch("sim", "SetSimRate"))
GetWorldUpdateSteps == Held("sim", "GetWorldUpdate", Touch("sim", "GetWorldUpdate"))
UpdateSteps == Held("sim", "Update", Touch("sim", "Update"))
IdleTimeSteps == Held("sim", "IdleTime", Touch("sim", "IdleTime"))
PostEventSteps == Held("sim", "PostEvent", Touch("sim", "PostEvent"))
GetAvailableCoveredPositionsSteps ==
    Held("sim", "GetAvailableCoveredPositions", Touch("sim", "GetAvailableCoveredPositions"))
\* Sim.CreateRestrictionArea, UpdateRestrictionArea, DeleteRestrictionArea
RestrictionAreaSteps(in) == Touch("sim", in) \o Touch("sim", in)

\* the methods C9 names
PublicSimMethods ==
    {"SignOn", "SignOff", "ChangeControlPosition", "TogglePause", "SetSimRate",
     "GetWorldUpdate", "CreateRestrictionArea", "UpdateRestrictionArea",
     "DeleteRestrictionArea", "Update"}

\* simSession methods
AddHumanControllerSteps == Held("ss", "AddHumanController", Touch("ss", "AddHumanController"))
SessionSignOffSteps == Held("ss", "simSession.SignOff", Touch("ss", "simSession.SignOff"))
GotUpdateCallForTCPSteps(warned) ==
    Held("ss", "GotUpdateCallForTCP",
         Touch("ss", "GotUpdateCallForTCP") \o (IF warned THEN PostEventSteps ELSE <<>>))
SendSpeechMP3sSteps ==
    Held("ss", "SendSpeechMP3s",
         Touch("ss", "SendSpeechMP3s")
            \o Held("sim", "GetControllerSpeech", Touch("sim", "GetControllerSpeech")))

\* SimManager methods; found is whether the token or name is in the registry
LookupControllerSteps == Held("sm", "LookupController", Touch("sm", "LookupController"))
SignOffSteps(found) ==
    Held("sm", "SimManager.SignOff",
         Touch("sm", "signOff")
            \o (IF found THEN SessionSignOffSteps \o SimSignOffSteps ELSE <<>>))
ConnectToSimSteps(found) ==
    Held("sm", "ConnectToSim",
         Touch("sm", "ConnectToSim")
            \o (IF found
                THEN SignOnSteps \o AddHumanControllerSteps \o Touch("sm", "ConnectToSim")
                        \o Touch("sim", "ConnectToSim")
                ELSE <<>>))
AddSteps(duplicate) ==
    Held("sm", "Add",
         Touch("sm", "Add")
            \o (IF duplicate THEN <<>>
                ELSE SignOnSteps \o AddHumanControllerSteps \o Touch("sm", "Add")))
       \o (IF duplicate THEN <<>> ELSE Touch("sim", "Add"))
GetStateUpdateSteps(found, warned) ==
    Held("sm", "GetStateUpdate", Touch("sm", "GetStateUpdate"))
       \o (IF found
           THEN GotUpdateCallForTCPSteps(warned)
                   \o Held("sim", "GetStateUpdate", Touch("sim", "GetStateUpdate"))
           ELSE <<>>)
GetRunningSimsSteps ==
    Held("sm", "GetRunningSims",
         Touch("sm", "GetRunningSims") \o Touch("sim", "GetRunningSims")
            \o GetAvailableCoveredPositionsSteps)
BroadcastSteps == Held("sm", "Broadcast", Touch("sm", "Broadcast") \o PostEventSteps)


\* SimManager.SimShouldExit; idle is whether the Sim is past simIdleLimit
SimShouldExitSteps(idle) ==
    IdleTimeSteps
       \o (IF idle
           THEN Held("sm", "SimShouldExit", Touch("sm", "SimShouldExit") \o IdleTimeSteps)
           ELSE <<>>)

\* CullIdleControllers that signs the silent controllers off before it
\* releases the session's mutex
CullIdleControllersStepsInsideLock(silent) ==
    Held("ss", "CullIdleControllers",
         Touch("ss", "CullIdleControllers")
            \o (IF silent >= 1 THEN PostEventSteps ELSE <<>>)
            \o (IF silent >= 2 THEN SignOffSteps(TRUE) ELSE <<>>))

\* simSession.CullIdleControllers; silent is 0 when every controller has been
\* heard from, 1 when one is warned, 2 when one is also signed off
CullIdleControllersSteps(silent) ==
    Held("ss", "CullIdleControllers",
         Touch("ss", "CullIdleControllers")
            \o (IF silent >= 1 THEN PostEventSteps ELSE <<>>))
       \o (IF silent >= 2 THEN SignOffSteps(TRUE) ELSE <<>>)

\* one iteration of the driver goroutine's loop
DriverIterationSteps(idle, silent) ==
    SimShouldExitSteps(idle) \o CullIdleControllersSteps(silent) \o UpdateSteps
       \o SendSpeechMP3sSteps

\* the end of the driver goroutine
DriverExitSteps ==
    SimShouldExitSteps(TRUE) \o IdleTimeSteps \o Held("sm", "Add", Touch("sm", "Add"))
       \o <<Step("end", "", "")>>

\* a Dispatcher method on a Sim method
DispatcherSteps(simSteps) == LookupControllerSteps \o simSteps

\* what an RPC goroutine may be asked to run
RPCOperations ==
    {SignOffSteps(found) : found \in BOOLEAN}
       \cup {ConnectToSimSteps(found) : found \in BOOLEAN}
       \cup {AddSteps(duplicate) : duplicate \in BOOLEAN}
       \cup {GetStateUpdateSteps(TRUE, warned) : warned \in BOOLEAN}
       \cup {GetStateUpdateSteps(FALSE, FALSE), GetRunningSimsSteps, BroadcastSteps,
             LookupControllerSteps}
       \cup {DispatcherSteps(simSteps) :
                simSteps \in {ChangeControlPositionSteps, TogglePauseSteps, SetSimRateSteps,
                              GetWorldUpdateSteps,
                              RestrictionAreaSteps("CreateRestrictionArea"),
                              RestrictionAreaSteps("UpdateRestrictionArea"),
                              RestrictionAreaSteps("DeleteRestrictionArea")}}

\* An RPC goroutine is handed a request
StartRPC(t, steps) ==
    /\ prog[t] = <<>>
    /\ prog' = [prog EXCEPT ![t] = steps]
    /\ UNCHANGED <<mgrVars, simVars, extVars, lastCall, cmdVars, holder>>

\* The driver goroutine starts the next iteration of its loop
StartDriver(idle, silent) ==
    /\ prog["driver"] = <<>>
    /\ prog' = [prog EXCEPT !["driver"] = DriverIterationSteps(idle, silent)]
    /\ UNCHANGED <<mgrVars, simVars, extVars, lastCall, cmdVars, holder>>

\* The driver goroutine finds that SimShouldExit and leaves its loop
DriverExit ==
    /\ prog["driver"] = <<>>
    /\ prog' = [prog EXCEPT !["driver"] = DriverExitSteps]
    /\ UNCHANGED <<mgrVars, simVars, extVars, lastCall, cmdVars, holder>>

\* mu.Lock: the task waits until the mutex is free
Acquire(t) ==
    /\ prog[t] # <<>>
    /\ Head(prog[t]).kind = "lock"
    /\ holder[Head(prog[t]).on] = NoTask
    /\ holder' = [holder EXCEPT ![Head(prog[t]).on] = t]
    /\ prog' = [prog EXCEPT ![t] = Tail(@)]
    /\ UNCHANGED <<mgrVars, simVars, extVars, lastCall, cmdVars>>

\* mu.Unlock
Release(t) ==
    /\ prog[t] # <<>>
    /\ Head(prog[t]).kind = "unlock"
    /\ holder' = [holder EXCEPT ![Head(prog[t]).on] = NoTask]
    /\ prog' = [prog EXCEPT ![t] = Tail(@)]
    /\ UNCHANGED <<mgrVars, simVars, extVars, lastCall, cmdVars>>

\* a read or write of shared state
Access(t) ==
    /\ prog[t] # <<>>
    /\ Head(prog[t]).kind = "access"
    /\ prog' = [prog EXCEPT ![t] = Tail(@)]
    /\ UNCHANGED <<mgrVars, simVars, extVars, lastCall, cmdVars, holder>>

NextLock ==
    \/ \E t \in RPCTasks, steps \in RPCOperations : StartRPC(t, steps)
    \/ \E idle \in BOOLEAN, silent \in 0..2 : StartDriver(idle, silent)
    \/ DriverExit
    \/ \E t \in Tasks : Acquire(t)
    \/ \E t \in Tasks : Release(t)
    \/ \E t \in Tasks : Access(t)

SpecLock == InitCmd /\ [][NextLock]_vars

Waiting(t) ==
    /\ prog[t] # <<>>
    /\ Head(prog[t]).kind = "lock"
    /\ holder[Head(prog[t]).on] # NoTask

HeldBy(t) == {l \in Locks : holder[l] = t}

\* C9: every public Sim method that reads or writes session state holds the
\* Sim's mutex from its first access to its last: whenever a task is about to
\* access the Sim's state inside one of these methods, it holds Sim.mu (so no
\* step of another method or of Update can come between two of its steps).
C9_SimMethodsHoldLock ==
    \A t \in Tasks :
       (/\ prog[t] # <<>>
        /\ Head(prog[t]).kind = "access"
        /\ Head(prog[t]).on = "sim"
        /\ Head(prog[t]).in \in PublicSimMethods)
       => holder["sim"] = t

LockRank(l) == IF l = "sm" THEN 1 ELSE IF l = "ss" THEN 2 ELSE 3

\* C10: mutexes are requested in the order manager, session, Sim: a task that
\* requests a mutex holds none of the same or a later rank, so none requests
\* the manager's mutex while holding a session's or a Sim's; and no set of
\* tasks is deadlocked, each waiting for a mutex that a task of the set holds.
C10_LockOrderNoDeadlock ==
    /\ \A t \in Tasks :
          (prog[t] # <<>> /\ Head(prog[t]).kind = "lock")
          => \A l \in HeldBy(t) : LockRank(l) < LockRank(Head(prog[t]).on)
    /\ ~\E waiters \in SUBSET Tasks :
          /\ waiters # {}
          /\ \A t \in waiters : Waiting(t) /\ holder[Head(prog[t]).on] \in waiters

\* The driver is signing an idle controller off and waits for the manager's
\* mutex, which an RPC goroutine holds while it waits for the session's
C10_Witness ==
    /\ Waiting("driver")
    /\ Head(prog["driver"]).in = "SimManager.SignOff"
    /\ \E t \in RPCTasks :
          /\ holder["sm"] = t
          /\ Waiting(t)
          /\ Head(prog[t]).on \in {"ss", "sim"}


---------------------------------------------------------------------------
\* SpecUpdate: one Sim, its driver calling Update while the wall clock
\* advances and controllers offer handoffs, point out aircraft, pause the
\* sim, change its rate and sign on and off.  Every Sim method below holds
\* Sim.mu from entry to return, so each is one step.  updateState's
\* per-aircraft advancement (aircraft motion, spawning) is outside the
\* model; the handoffs and point-outs it starts are the ones OfferHandoff
\* and PointOut start.

\* the longest behaviour, in wall-clock nanoseconds
MaxWall == 1500000000
\* the longest wall-clock time the driver lets pass between two Update calls
\* of a running Sim
MaxElapsed == 550000000
\* calls other than Update in one behaviour
MaxCalls == 3
\* the wall-clock time that passes between two steps of the model
WallSteps == {499999990}
\* the rates SetSimRate is called with
RateInputs == {-1, 1, 2}
\* the seconds after which an offered handoff or a point-out is accepted
\* automatically
AcceptDelays == {1, 2}
\* the orders in which a range loop may visit the callsigns
Orders == {<<"AAL1", "UAL2">>, <<"UAL2", "AAL1">>}

otherVars == <<mgrVars, lastCall, cmdVars, lockVars, extVars>>

Logged(op, arg, err) ==
    [trace EXCEPT !.op = op, !.arg = arg, !.err = err,
                  !.prev = [op |-> trace.op, arg |-> trace.arg, err |-> trace.err],
                  !.steps = <<>>, !.calls = @ + 1]

\* a Sim with the primary controller signed on, one aircraft tracked by it
\* and one tracked by a virtual controller
StartedSim ==
    [SimSignOnFull(NewSimState, PrimaryPosition, FALSE, 0).sim EXCEPT
        !.Aircraft = [c \in Callsigns |->
                        [TrackingController |-> IF c = "AAL1" THEN "P1" ELSE "V1",
                         HandoffTrackController |-> ""]]]

InitUpdate ==
    /\ local = FALSE
    /\ simSessions = EmptyMap
    /\ sessionsByToken = EmptyMap
    /\ sessions = <<>>
    /\ nextToken = 0
    /\ bgIdle = 0
    /\ signedOff = {}
    /\ lastCall = Call("init", NoErr)
    /\ aircraft = NewAircraft
    /\ call = [c \in Callers |-> NoCall]
    /\ applied = <<>>
    /\ holder = [l \in Locks |-> NoTask]
    /\ prog = [t \in Tasks |-> <<>>]
    /\ \E pre \in BOOLEAN : fullSim = [StartedSim EXCEPT !.prespawn = pre]
    /\ wall = 0
    /\ trace = NoTrace
    /\ InitExt

\* time passes
Tick(d) ==
    /\ wall + d <= MaxWall
    /\ ~fullSim.prespawn
    /\ SimUpdates(fullSim) => wall + d - fullSim.lastUpdateTime <= MaxElapsed
    /\ wall' = wall + d
    /\ UNCHANGED <<fullSim, trace, otherVars>>

\* Sim.Prespawn, one of its one-second steps: updateState with s.prespawn set
PrespawnStep(order) ==
    /\ fullSim.prespawn
    /\ trace.calls < MaxCalls
    /\ LET ticked == [fullSim EXCEPT !.SimTime = TimeAdd(@, Second)]
           st == updateState(ticked, order)
       IN  /\ fullSim' = st.sim
           /\ trace' = [Logged("Prespawn", <<>>, NoErr) EXCEPT
                           !.steps = <<StepRecord(ticked, st)>>]
    /\ UNCHANGED <<wall, otherVars>>

\* Sim.Prespawn returns
EndPrespawn ==
    /\ fullSim.prespawn
    /\ fullSim' = [fullSim EXCEPT !.prespawn = FALSE, !.lastUpdateTime = wall]
    /\ trace' = [Logged("EndPrespawn", <<>>, NoErr) EXCEPT !.calls = trace.calls]
    /\ UNCHANGED <<wall, otherVars>>

\* the driver task calls Sim.Update
Update(order) ==
    /\ ~fullSim.prespawn
    /\ LET r == SimUpdate(fullSim, wall, order)
           scaled == fullSim.SimRate * (wall - fullSim.lastUpdateTime)
           n == trace.totalNsec + scaled
       IN  /\ fullSim' = r.sim
           /\ trace' = [Logged("Update", <<>>, NoErr) EXCEPT
                           !.steps = r.steps,
                           !.calls = trace.calls,
                           !.totalSec = IF SimUpdates(fullSim)
                                        THEN @ + (n \div Second) ELSE @,
                           !.totalNsec = IF SimUpdates(fullSim) THEN n % Second ELSE @,
                           !.nsteps = @ + Len(r.steps)]
    /\ UNCHANGED <<wall, otherVars>>

\* Sim.SetSimRate
SetSimRate(rate) ==
    /\ ~fullSim.prespawn
    /\ trace.calls < MaxCalls
    /\ fullSim' = SimSetSimRate(fullSim, rate)
    /\ trace' = Logged("SetSimRate", <<rate>>, NoErr)
    /\ UNCHANGED <<wall, otherVars>>

\* Sim.TogglePause
TogglePauseSim(tcp) ==
    /\ ~fullSim.prespawn
    /\ trace.calls < MaxCalls
    /\ tcp \in fullSim.humans
    /\ fullSim' = SimTogglePauseFull(fullSim, tcp, wall)
    /\ trace' = Logged("TogglePause", <<tcp>>, NoErr)
    /\ UNCHANGED <<wall, otherVars>>

\* Sim.SignOn
SignOnPosition(tcp, instructor) ==
    /\ ~fullSim.prespawn
    /\ trace.calls < MaxCalls
    /\ LET r == SimSignOnFull(fullSim, tcp, instructor, wall)
       IN  /\ fullSim' = r.sim
           /\ trace' = Logged("SignOn", <<tcp, instructor>>, r.err)
    /\ UNCHANGED <<wall, otherVars>>

\* Sim.SignOff
SignOffPosition(tcp) ==
    /\ ~fullSim.prespawn
    /\ trace.calls < MaxCalls
    /\ LET r == SimSignOffFull(fullSim, tcp)
       IN  /\ fullSim' = r.sim
           /\ trace' = Logged("SignOff", <<tcp>>, r.err)
    /\ UNCHANGED <<wall, otherVars>>

\* Sim.handoffTrack: the tracking controller offers the aircraft to
\* another position; the offer is accepted automatically after a delay
OfferHandoff(callsign, to, delay) ==
    /\ trace.calls < MaxCalls
    /\ callsign \in DOMAIN fullSim.Aircraft
    /\ callsign \notin DOMAIN fullSim.Handoffs
    /\ fullSim.Aircraft[callsign].HandoffTrackController = ""
    /\ to \in fullSim.controllers
    /\ to # fullSim.Aircraft[callsign].TrackingController
    /\ fullSim' = [fullSim EXCEPT
           !.Aircraft[callsign].HandoffTrackController = to,
           !.Handoffs = Put(@, callsign,
                            [AutoAcceptTime |-> TimeAdd(fullSim.SimTime, delay * Second)]),
           !.eventStream = Post(@, Event("OfferedHandoffEvent",
                                         fullSim.Aircraft[callsign].TrackingController,
                                         to, callsign))]
    /\ trace' = Logged("HandoffTrack", <<callsign, to>>, NoErr)
    /\ UNCHANGED <<wall, otherVars>>

\* Sim.AcceptHandoff: the human at the receiving position accepts
AcceptHandoff(callsign) ==
    /\ ~fullSim.prespawn
    /\ trace.calls < MaxCalls
    /\ callsign \in DOMAIN fullSim.Aircraft
    /\ fullSim.Aircraft[callsign].HandoffTrackController \in fullSim.humans
    /\ fullSim' = [fullSim EXCEPT
           !.Aircraft[callsign] =
               [@ EXCEPT !.TrackingController =
                             fullSim.Aircraft[callsign].HandoffTrackController,
                         !.HandoffTrackController = ""],
           !.Handoffs = Remove(@, callsign),
           !.eventStream = Post(@, Event("AcceptedHandoffEvent",
                                         fullSim.Aircraft[callsign].TrackingController,
                                         fullSim.Aircraft[callsign].HandoffTrackController,
                                         callsign))]
    /\ trace' = Logged("AcceptHandoff", <<callsign>>, NoErr)
    /\ UNCHANGED <<wall, otherVars>>

\* Sim.pointOut: a controller points the aircraft out to another position
PointOut(callsign, from, to, delay) ==
    /\ trace.calls < MaxCalls
    /\ callsign \in DOMAIN fullSim.Aircraft
    /\ callsign \notin DOMAIN fullSim.PointOuts
    /\ from \in fullSim.controllers
    /\ to \in fullSim.controllers
    /\ from # to
    /\ fullSim' = [fullSim EXCEPT
           !.PointOuts = Put(@, callsign,
                             [FromController |-> from, ToController |-> to,
                              AcceptTime |-> TimeAdd(fullSim.SimTime, delay * Second)]),
           !.eventStream = Post(@, Event("PointOutEvent", from, to, callsign))]
    /\ trace' = Logged("PointOut", <<callsign, from, to>>, NoErr)
    /\ UNCHANGED <<wall, otherVars>>

\* State.DeleteAircraft: the aircraft lands or leaves the area
DeleteAircraftFromSim(callsign) ==
    /\ trace.calls < MaxCalls
    /\ callsign \in DOMAIN fullSim.Aircraft
    /\ fullSim' = [fullSim EXCEPT !.Aircraft = Remove(@, callsign)]
    /\ trace' = Logged("DeleteAircraft", <<callsign>>, NoErr)
    /\ UNCHANGED <<wall, otherVars>>

NextUpdate ==
    \/ \E d \in WallSteps : Tick(d)
    \/ \E order \in Orders : PrespawnStep(order)
    \/ EndPrespawn
    \/ \E order \in Orders : Update(order)
    \/ \E rate \in RateInputs : SetSimRate(rate)
    \/ \E tcp \in ScenarioSignOnPositions : TogglePauseSim(tcp)
    \/ \E tcp \in ScenarioSignOnPositions, instructor \in BOOLEAN :
           SignOnPosition(tcp, instructor)
    \/ \E tcp \in ScenarioSignOnPositions : SignOffPosition(tcp)
    \/ \E callsign \in Callsigns, to \in ScenarioSignOnPositions \cup VirtualControllers,
          delay \in AcceptDelays : OfferHandoff(callsign, to, delay)
    \/ \E callsign \in Callsigns : AcceptHandoff(callsign)
    \/ \E callsign \in Callsigns,
          from, to \in ScenarioSignOnPositions \cup VirtualControllers,
          delay \in AcceptDelays : PointOut(callsign, from, to, delay)
    \/ \E callsign \in Callsigns : DeleteAircraftFromSim(callsign)

SpecUpdate == InitUpdate /\ [][NextUpdate]_vars

TypeUpdate == fullSim.humans = DOMAIN fullSim.humanControllers


---------------------------------------------------------------------------
\* C11: over the Update calls made while unpaused with the primary
\* controller signed on, SimTime changes only by whole seconds, the number
\* of one-second steps taken equals the floor of the total scaled elapsed
\* time (the sum of SimRate times the wall-clock time since the previous
\* call), and updateTimeSlop is always in [0, 1 s).
C11_StepsAreFloorOfScaledTime ==
    /\ fullSim.SimTime.nsec = StartedSim.SimTime.nsec
    /\ trace.nsteps = trace.totalSec
    /\ 0 <= fullSim.updateTimeSlop /\ fullSim.updateTimeSlop < Second


\* an Update step: every operation but the passing of time logs itself
IsUpdateStep == trace'.op = "Update" /\ wall' = wall

\* C12: an Update call made while State.Paused is set, or while the primary
\* controller position has no human subscription, leaves SimTime, Handoffs,
\* PointOuts, every aircraft's controller fields, updateTimeSlop and
\* lastUpdateTime unchanged, runs no step and posts no event.
C12_NoOpWhilePausedOrUnattended ==
    [][(/\ IsUpdateStep
        /\ fullSim.paused \/ ~isActiveHumanController(fullSim, fullSim.primary))
       => /\ fullSim'.SimTime = fullSim.SimTime
          /\ fullSim'.Handoffs = fullSim.Handoffs
          /\ fullSim'.PointOuts = fullSim.PointOuts
          /\ fullSim'.Aircraft = fullSim.Aircraft
          /\ fullSim'.updateTimeSlop = fullSim.updateTimeSlop
          /\ fullSim'.lastUpdateTime = fullSim.lastUpdateTime
          /\ fullSim'.eventStream = fullSim.eventStream
          /\ trace'.steps = <<>>]_vars

\* Update has returned early with a handoff outstanding and wall-clock time
\* passed since lastUpdateTime
C12_Witness ==
    /\ trace.op = "Update"
    /\ fullSim.paused \/ ~isActiveHumanController(fullSim, fullSim.primary)
    /\ fullSim.Handoffs # EmptyMap
    /\ wall > fullSim.lastUpdateTime + Second


\* the one-second steps of the last Update or Prespawn call
LastSteps == {trace.steps[i] : i \in 1..Len(trace.steps)}
\* the step resolved the handoff of callsign c: it removed the entry or
\* posted the acceptance
HandoffResolved(st, c) ==
    /\ c \in DOMAIN st.before.Handoffs
    /\ \/ c \notin DOMAIN st.after.Handoffs
       \/ \E i \in 1..Len(st.posted) :
             st.posted[i].Type = "AcceptedHandoffEvent" /\ st.posted[i].Callsign = c

\* C13: outside prespawn, a handoff with auto-accept deadline D is never
\* resolved automatically (accepted or removed) in a one-second step whose
\* simulated time has not passed D.
C13_NoResolutionBeforeDeadline ==
    \A st \in LastSteps :
        \A c \in DOMAIN st.before.Handoffs :
            (HandoffResolved(st, c) /\ ~st.before.prespawn)
                => TimeAfter(st.before.SimTime, st.before.Handoffs[c].AutoAcceptTime)

\* outside prespawn, a step has removed a handoff and left the other one,
\* whose deadline had not passed, in place
C13_Witness ==
    \E st \in LastSteps :
        /\ ~st.before.prespawn
        /\ \E c \in DOMAIN st.before.Handoffs : HandoffResolved(st, c)
        /\ \E c \in DOMAIN st.before.Handoffs : ~HandoffResolved(st, c)


\* the handoff of callsign c is due in step st: simulated time is at or
\* after its deadline, the aircraft exists and the position it is offered
\* to is not a signed-on human
HandoffDue(st, c) ==
    /\ c \in DOMAIN st.before.Handoffs
    /\ ~TimeAfter(st.before.Handoffs[c].AutoAcceptTime, st.before.SimTime)
    /\ c \in DOMAIN st.before.Aircraft
    /\ st.before.Aircraft[c].HandoffTrackController # ""
    /\ ~isActiveHumanController(st.before, st.before.Aircraft[c].HandoffTrackController)

\* the step accepted the handoff of callsign c
HandoffAccepted(st, c) ==
    LET ac == st.before.Aircraft[c]
        e == Event("AcceptedHandoffEvent", ac.TrackingController,
                   ac.HandoffTrackController, c)
    IN  /\ c \in DOMAIN st.after.Aircraft
        /\ st.after.Aircraft[c].TrackingController = ac.HandoffTrackController
        /\ st.after.Aircraft[c].HandoffTrackController = ""
        /\ Cardinality({i \in 1..Len(st.posted) : st.posted[i] = e}) = 1
        /\ c \notin DOMAIN st.after.Handoffs

\* C14: for a handoff with deadline D whose aircraft exists with a pending
\* HandoffTrackController that is not a signed-on human, the first
\* one-second step with simulated time at or after D (equal to D included)
\* accepts it: TrackingController becomes the receiver,
\* HandoffTrackController is cleared, exactly one AcceptedHandoffEvent from
\* the old tracking controller to the receiver is posted and the entry is
\* removed.
C14_AcceptedAtDeadline ==
    \A st \in LastSteps :
        \A c \in DOMAIN st.before.Handoffs : HandoffDue(st, c) => HandoffAccepted(st, c)


\* the acknowledgments a step posted
Acknowledgments(st) ==
    {st.posted[i] : i \in {j \in 1..Len(st.posted) :
                               st.posted[j].Type = "AcknowledgedPointOutEvent"}}

\* C15: every AcknowledgedPointOutEvent posted by the automatic point-out
\* resolution has as FromController the ToController of the point-out it
\* answers, as ToController its FromController, and its callsign.
C15_AcknowledgmentSwapsFromTo ==
    \A st \in LastSteps :
        \A e \in Acknowledgments(st) :
            /\ e.Callsign \in DOMAIN st.before.PointOuts
            /\ e.FromController = st.before.PointOuts[e.Callsign].ToController
            /\ e.ToController = st.before.PointOuts[e.Callsign].FromController

\* a step has acknowledged a point-out
C15_Witness ==
    \E st \in LastSteps :
        \E e \in Acknowledgments(st) :
            /\ e.Callsign \in DOMAIN st.before.PointOuts
            /\ e.Callsign \notin DOMAIN st.after.PointOuts
            /\ e.FromController # e.ToController


---------------------------------------------------------------------------
\* SpecRoster: the same Sim with controllers signing on, signing off and
\* changing position.  Sim.signOn and Sim.SignOff hold Sim.mu throughout
\* and are one step each.  Sim.ChangeControlPosition holds it only inside
\* signOn, so the rest of it is a step of its own, and calls of other
\* tasks may run in between.

\* the subscription registered under tcp, nil if there is none
SubscriptionOf(s, tcp) ==
    IF tcp \in DOMAIN s.humanControllers THEN s.humanControllers[tcp] ELSE NilSubscription

\* a Sim with P1 signed on, and one with P2, an instructor, signed on as
\* well and tracking the second aircraft
InitRoster ==
    /\ local = FALSE
    /\ simSessions = EmptyMap
    /\ sessionsByToken = EmptyMap
    /\ sessions = <<>>
    /\ nextToken = 0
    /\ bgIdle = 0
    /\ signedOff = {}
    /\ lastCall = Call("init", NoErr)
    /\ aircraft = NewAircraft
    /\ call = [c \in Callers |-> NoCall]
    /\ applied = <<>>
    /\ holder = [l \in Locks |-> NoTask]
    /\ prog = [t \in Tasks |-> <<>>]
    /\ fullSim \in
         {StartedSim,
          [SimSignOnFull(StartedSim, "P2", TRUE, 0).sim EXCEPT
              !.Aircraft["UAL2"].TrackingController = "P2",
              !.Aircraft["AAL1"].HandoffTrackController = "P2"]}
    /\ wall = 0
    /\ trace = NoTrace
    /\ InitExt

\* Sim.ChangeControlPosition, up to the return of signOn
BeginChangeControlPosition(fromTCP, toTCP, keepTracks) ==
    /\ trace.calls < MaxCalls
    /\ trace.swap = <<>>
    /\ LET r == ChangeControlPositionSignOn(fullSim, fromTCP, toTCP, wall)
       IN  /\ fullSim' = r.sim
           /\ trace' = [Logged("ChangeControlPosition", <<fromTCP, toTCP, keepTracks>>,
                               r.err) EXCEPT
                           !.swap = IF r.err # NoErr THEN <<>>
                                    ELSE <<[fromTCP |-> fromTCP, toTCP |-> toTCP,
                                            keepTracks |-> keepTracks,
                                            sub |-> SubscriptionOf(fullSim, fromTCP)]>>]
    /\ UNCHANGED <<wall, otherVars>>

\* Sim.ChangeControlPosition, from the return of signOn to its own return
FinishChangeControlPosition ==
    /\ trace.swap # <<>>
    /\ LET sw == trace.swap[1]
           r == ChangeControlPositionSwap(fullSim, sw.fromTCP, sw.toTCP, sw.keepTracks)
       IN  /\ fullSim' = r.sim
           /\ trace' = [Logged("ChangeControlPosition.return",
                               <<sw.fromTCP, sw.toTCP, sw.keepTracks>>, r.err) EXCEPT
                           !.swap = <<>>, !.calls = trace.calls]
    /\ UNCHANGED <<wall, otherVars>>

\* Sim.GetWorldUpdate: the controller at tcp collects its events
Poll(tcp) ==
    /\ tcp \in DOMAIN fullSim.humanControllers
    /\ fullSim.humanControllers[tcp] # NilSubscription
    /\ Pending(fullSim.eventStream, fullSim.humanControllers[tcp]) # <<>>
    /\ fullSim' = [fullSim EXCEPT !.eventStream = Get(@, fullSim.humanControllers[tcp])]
    /\ trace' = [Logged("GetWorldUpdate", <<tcp>>, NoErr) EXCEPT !.calls = trace.calls]
    /\ UNCHANGED <<wall, otherVars>>

NextRoster ==
    \/ \E d \in WallSteps : Tick(d)
    \/ \E tcp \in PositionInputs, instructor \in BOOLEAN : SignOnPosition(tcp, instructor)
    \/ \E tcp \in PositionInputs : SignOffPosition(tcp)
    \/ \E fromTCP \in ScenarioSignOnPositions, toTCP \in PositionInputs,
          keepTracks \in BOOLEAN :
           BeginChangeControlPosition(fromTCP, toTCP, keepTracks)
    \/ FinishChangeControlPosition
    \/ \E tcp \in ScenarioSignOnPositions : Poll(tcp)

SpecRoster == InitRoster /\ [][NextRoster]_vars


---------------------------------------------------------------------------
\* a step of the operation op: every operation but the passing of time
\* logs itself
IsStepOf(op) == trace'.op = op /\ wall' = wall

\* the error SignOn(tcp) must fail with in Sim s, NoErr if it must succeed
SignOnError(s, tcp) ==
    IF tcp \in DOMAIN s.humanControllers THEN ErrControllerAlreadySignedIn
    ELSE IF tcp \in s.controllers THEN ErrInvalidController
    ELSE IF tcp \notin s.signOn THEN ErrNoController
    ELSE NoErr

\* C16: SignOn(position) fails with ErrControllerAlreadySignedIn if the
\* position is in humanControllers, with ErrInvalidController if it is an
\* entry of State.Controllers, with ErrNoController if it is not in
\* SignOnPositions; a failure leaves roster, subscriptions, instructors
\* and timers unchanged; of two SignOn calls for the same position that run
\* one after the other in either order, exactly one succeeds when the
\* position was available and none when it was not.
C16_SignOnFailures ==
    [][IsStepOf("SignOn") =>
        LET tcp == trace'.arg[1] IN
        /\ trace'.err = SignOnError(fullSim, tcp)
        /\ trace'.err # NoErr => fullSim' = fullSim
        /\ trace'.err = NoErr =>
              /\ tcp \notin DOMAIN fullSim.humanControllers
              /\ tcp \in DOMAIN fullSim'.humanControllers
        /\ (trace.op = "SignOn" /\ trace.arg[1] = tcp) =>
              /\ trace.err = NoErr => trace'.err = ErrControllerAlreadySignedIn
              /\ trace.err # NoErr => trace'.err = trace.err]_vars

\* two SignOn calls for the same free position have run back to back: the
\* first succeeded, the second was refused
C16_Witness ==
    /\ trace.op = "SignOn" /\ trace.prev.op = "SignOn"
    /\ trace.arg[1] = trace.prev.arg[1]
    /\ trace.prev.err = NoErr
    /\ trace.err = ErrControllerAlreadySignedIn

\* C17: after a successful SignOff(position) of any signed-on position,
\* the primary controller's included, no aircraft has that position as its
\* tracking controller; SignOff of a position that is not signed on returns
\* ErrNoController and changes nothing.
C17_NoTracksLeftAfterSignOff ==
    [][IsStepOf("SignOff") =>
        LET tcp == trace'.arg[1] IN
        IF tcp \in DOMAIN fullSim.humanControllers
        THEN /\ trace'.err = NoErr
             /\ \A c \in DOMAIN fullSim'.Aircraft :
                    fullSim'.Aircraft[c].TrackingController # tcp
        ELSE /\ trace'.err = ErrNoController
             /\ fullSim' = fullSim]_vars

\* C18: ChangeControlPosition(from, to, keepTracks) vacates from only after
\* the sign-on to the new position has succeeded; if SignOn(to) fails (to
\* occupied, virtual, not eligible or equal to from) the call returns that
\* error and from stays signed on with its subscription, instructor flag
\* and tracked aircraft unchanged.
C18_FailedChangeKeepsOldPosition ==
    [][(IsStepOf("ChangeControlPosition")
           /\ trace'.arg[1] \in DOMAIN fullSim.humanControllers) =>
        LET fromTCP == trace'.arg[1]
            toTCP == trace'.arg[2]
        IN  /\ trace'.err = SignOnError(fullSim, toTCP)
            /\ (toTCP = fromTCP /\ fromTCP \in DOMAIN fullSim.humanControllers)
                  => trace'.err = ErrControllerAlreadySignedIn
            /\ trace'.err # NoErr => (fullSim' = fullSim /\ trace'.swap = <<>>)
            /\ SubscriptionOf(fullSim', fromTCP) = SubscriptionOf(fullSim, fromTCP)
            /\ (fromTCP \in fullSim'.instructors) = (fromTCP \in fullSim.instructors)
            /\ fullSim'.Aircraft = fullSim.Aircraft]_vars

\* an instructor tracking an aircraft has asked for an occupied position
\* and been refused
C18_Witness ==
    /\ trace.op = "ChangeControlPosition"
    /\ trace.err = ErrControllerAlreadySignedIn
    /\ trace.arg[1] # trace.arg[2]
    /\ trace.arg[1] \in fullSim.instructors
    /\ \E c \in DOMAIN fullSim.Aircraft :
          fullSim.Aircraft[c].TrackingController = trace.arg[1]

\* C19: after a successful ChangeControlPosition(from, to, _) the
\* subscription registered under to is the one that was registered under
\* from before the call, every event pending on it and every event posted
\* during the swap is still pending on it, and from is no key of
\* humanControllers.
C19_SubscriptionMigrates ==
    [][(IsStepOf("ChangeControlPosition.return") /\ trace'.err = NoErr
           /\ trace.swap # <<>> /\ trace.swap[1].sub # NilSubscription) =>
        LET sw == trace.swap[1] IN
        /\ SubscriptionOf(fullSim', sw.toTCP) = sw.sub
        /\ sw.sub \in DOMAIN fullSim'.eventStream.subscriptions
        /\ \E posted \in {<<>>, <<StatusMessageEvent(sw.fromTCP, "has signed off.")>>} :
              Pending(fullSim'.eventStream, sw.sub)
                  = Pending(fullSim.eventStream, sw.sub) \o posted
        /\ sw.fromTCP \notin DOMAIN fullSim'.humanControllers]_vars


---------------------------------------------------------------------------
\* the registered sessions other than sid whose Sim is past simIdleLimit
OtherIdleSessions(sid) ==
    bgIdle + Cardinality({n \in DOMAIN simSessions :
                             simSessions[n] # sid /\ sessions[simSessions[n]].sim.idle})

\* C20: a session idle for 4 hours or more is torn down only when more
\* than 10 other sessions are idle for 4 hours or more at the same time;
\* with 10 or fewer others over the threshold SimShouldExit returns false
\* and the driver task keeps running.
C20_TornDownOnlyWithOthersIdle ==
    [][\A sid \in DOMAIN sessions :
          (sessions[sid].running /\ ~sessions'[sid].running)
              => /\ sessions[sid].sim.idle
                 /\ OtherIdleSessions(sid) > maxIdleSims]_vars

---------------------------------------------------------------------------
\* Teardown and the humans of a session.

\* C21: a session is never torn down (its Sim destroyed, its tokens and its
\* name removed from the registries) while at least one human controller is
\* signed on to it, whatever the pause state and whichever position that
\* human occupies.
C21_NoTeardownWhileHumanSignedOn ==
    [][\A sid \in DOMAIN sessions :
          (~sessions[sid].destroyed /\ sessions'[sid].destroyed)
              => sessions[sid].sim.humans = {}]_vars

---------------------------------------------------------------------------
\* SpecCull: the idle-controller check of the driver task.  A session's
\* driver calls CullIdleControllers in every iteration of its loop unless
\* the SimManager is local; the call first walks connectionsByTCP under the
\* session lock, posting the 5 s warnings and collecting the tokens of the
\* positions silent for more than 15 s, then releases the lock and calls
\* SimManager.SignOff for each collected token.  RPCs run between the two
\* halves and between the sign-offs.

\* status events posted in one behaviour
MaxEvents == 3

\* the two status events of the idle-controller check; token (not part of
\* the event's text) identifies the connection the event is about
SilenceWarning(sid, tcp, token) ==
    [session |-> sid, tcp |-> tcp, token |-> token,
     text |-> " has not been heard from for 5 seconds. Connection lost?"]
BackOnline(sid, tcp, token) ==
    [session |-> sid, tcp |-> tcp, token |-> token, text |-> " is back online."]

\* the orders in which a range loop may visit the keys S of a map
OrdersOf(S) ==
    {o \in [1..Cardinality(S) -> S] : {o[i] : i \in 1..Cardinality(S)} = S}

\* the loop of CullIdleControllers signing off at the 5 s threshold
RECURSIVE CullLoopSignsOffWarned(_, _, _)
CullLoopSignsOffWarned(st, sid, order) ==
    IF order = <<>> THEN st
    ELSE LET tcp == Head(order)
             ctrl == st.ss.conns[tcp]
             warn == ctrl.silent >= 1 /\ ~ctrl.warned
             st1 == [st EXCEPT
                       !.ss.conns[tcp].warned = IF warn THEN TRUE ELSE @,
                       !.posted = IF warn
                                  THEN Append(@, SilenceWarning(sid, tcp, ctrl.token))
                                  ELSE @,
                       !.tokensToSignOff =
                           IF ctrl.silent >= 1
                           THEN Append(@, [session |-> sid, token |-> ctrl.token,
                                           tcp |-> tcp, silent |-> ctrl.silent])
                           ELSE @]
         IN  CullLoopSignsOffWarned(st1, sid, Tail(order))

\* the loop of CullIdleControllers over connectionsByTCP, visited in order;
\* st is the session, the events posted and the tokens collected so far
RECURSIVE CullLoop(_, _, _)
CullLoop(st, sid, order) ==
    IF order = <<>> THEN st
    ELSE LET tcp == Head(order)
             ctrl == st.ss.conns[tcp]
             warn == ctrl.silent >= 1 /\ ~ctrl.warned
             st1 == [st EXCEPT
                       !.ss.conns[tcp].warned = IF warn THEN TRUE ELSE @,
                       !.posted = IF warn
                                  THEN Append(@, SilenceWarning(sid, tcp, ctrl.token))
                                  ELSE @,
                       !.tokensToSignOff =
                           IF ctrl.silent = 2
                           THEN Append(@, [session |-> sid, token |-> ctrl.token,
                                           tcp |-> tcp, silent |-> ctrl.silent])
                           ELSE @]
         IN  CullLoop(st1, sid, Tail(order))

\* the entries of cull that belong to the driver task of session sid
Collected(sid) == SelectSeq(cull, LAMBDA e : e.session = sid)

InitCull ==
    /\ local \in BOOLEAN
    /\ simSessions = EmptyMap
    /\ sessionsByToken = EmptyMap
    /\ sessions = <<>>
    /\ nextToken = 0
    /\ bgIdle = 0
    /\ signedOff = {}
    /\ lastCall = Call("init", NoErr)
    /\ aircraft = NewAircraft
    /\ call = [c \in Callers |-> NoCall]
    /\ applied = <<>>
    /\ holder = [l \in Locks |-> NoTask]
    /\ prog = [t \in Tasks |-> <<>>]
    /\ fullSim = NewSimState
    /\ wall = 0
    /\ trace = NoTrace
    /\ InitExt

\* time passes without an update call from tcp: the time since its
\* lastUpdateCall goes over 5 s (level 1) or over 15 s (level 2)
SilencePasses(sid, tcp, level) ==
    /\ Len(events) < MaxEvents
    /\ tcp \in DOMAIN sessions[sid].conns
    /\ level > sessions[sid].conns[tcp].silent
    /\ sessions' = [sessions EXCEPT ![sid].conns[tcp].silent = level]
    /\ lastCall' = Call("SilencePasses", NoErr)
    /\ UNCHANGED <<local, simSessions, sessionsByToken, nextToken, bgIdle, signedOff>>
    /\ UNCHANGED taskVars

\* SimManager.GetStateUpdate with the event GotUpdateCallForTCP posts
GetStateUpdateCall(token) ==
    /\ IF token \notin DOMAIN sessionsByToken
       THEN /\ lastCall' = Call("GetStateUpdate", ErrNoSimForControllerToken)
            /\ UNCHANGED <<sessions, events>>
       ELSE LET ctrl == sessionsByToken[token]
                ss == sessions[ctrl.session]
            IN  /\ sessions' = [sessions EXCEPT ![ctrl.session] =
                                   GotUpdateCallForTCP(@, ctrl.tcp)]
                /\ events' = IF ctrl.tcp \in DOMAIN ss.conns /\ ss.conns[ctrl.tcp].warned
                             THEN Append(events, BackOnline(ctrl.session, ctrl.tcp,
                                                            ss.conns[ctrl.tcp].token))
                             ELSE events
                /\ lastCall' = Call("GetStateUpdate", NoErr)
    /\ UNCHANGED <<local, simSessions, sessionsByToken, nextToken, bgIdle, signedOff>>
    /\ UNCHANGED <<aircraft, call, applied, holder, prog, simVars, cull, cidVars, areaVars, serial, proc, resume>>

\* the driver task of session sid enters CullIdleControllers and runs its
\* loop under the session lock
CullCheck(sid, order) ==
    /\ sessions[sid].running
    /\ ~local
    /\ Collected(sid) = <<>>
    /\ order \in OrdersOf(DOMAIN sessions[sid].conns)
    /\ LET st == CullLoop([ss |-> sessions[sid], posted |-> <<>>, tokensToSignOff |-> <<>>],
                          sid, order)
       IN  /\ sessions' = [sessions EXCEPT ![sid] = st.ss]
           /\ events' = events \o st.posted
           /\ cull' = cull \o st.tokensToSignOff
    /\ lastCall' = Call("CullIdleControllers", NoErr)
    /\ UNCHANGED <<local, simSessions, sessionsByToken, nextToken, bgIdle, signedOff>>
    /\ UNCHANGED <<aircraft, call, applied, holder, prog, simVars, cidVars, areaVars, serial, proc, resume>>

\* the driver task of session sid calls SimManager.SignOff for the next
\* token it collected
CullSignOff(sid) ==
    /\ Collected(sid) # <<>>
    /\ LET e == Head(Collected(sid))
           i == CHOOSE k \in DOMAIN cull : cull[k] = e
           r == signOff(sessionsByToken, sessions, e.token)
       IN  /\ sessionsByToken' = r.tok
           /\ sessions' = r.ses
           /\ signedOff' = IF e.token \in DOMAIN sessionsByToken
                           THEN signedOff \cup {e.token} ELSE signedOff
           /\ cull' = SubSeq(cull, 1, i - 1) \o SubSeq(cull, i + 1, Len(cull))
           /\ lastCall' = Call("CullIdleControllers.SignOff", r.err)
    /\ UNCHANGED <<local, simSessions, nextToken, bgIdle>>
    /\ UNCHANGED <<aircraft, call, applied, holder, prog, simVars, events, cidVars, areaVars, serial, proc, resume>>

NextCull ==
    \/ \E name \in Names : NewSim(name, "", TRUE, "ok", FALSE)
    \/ \E name \in Names, pos \in PositionInputs : ConnectToSimRPC(name, pos, "")
    \/ \E token \in TokenInputs : SignOff(token)
    \/ \E token \in TokenInputs : GetStateUpdateCall(token)
    \/ \E sid \in DOMAIN sessions, tcp \in PositionInputs, level \in {1, 2} :
          SilencePasses(sid, tcp, level)
    \/ \E sid \in DOMAIN sessions :
          \E order \in OrdersOf(DOMAIN sessions[sid].conns) : CullCheck(sid, order)
    \/ \E sid \in DOMAIN sessions : CullSignOff(sid)

SpecCull == InitCull /\ [][NextCull]_vars

---------------------------------------------------------------------------
\* the events the step has posted
NewEvents == SubSeq(events', Len(events) + 1, Len(events'))

IsWarning(e) == e = SilenceWarning(e.session, e.tcp, e.token)

\* in the event log, two warnings about one connection are separated by
\* that connection's "back online"
WarnedOncePerEpisode(ev) ==
    \A i, j \in DOMAIN ev :
        (i < j /\ IsWarning(ev[i]) /\ IsWarning(ev[j]) /\ ev[i].token = ev[j].token)
            => \E k \in (i + 1)..(j - 1) :
                  ev[k] = BackOnline(ev[i].session, ev[i].tcp, ev[i].token)

---------------------------------------------------------------------------
\* the step warns about a position of session sid or is the driver task's
\* sign-off of one
WarnsOrEvicts(sid) ==
    \/ \E n \in DOMAIN NewEvents : IsWarning(NewEvents[n]) /\ NewEvents[n].session = sid
    \/ /\ lastCall'.op = "CullIdleControllers.SignOff"
       /\ \E t \in DOMAIN sessionsByToken \ DOMAIN sessionsByToken' :
             sessionsByToken[t].session = sid

\* C23: idle-controller eviction applies only to multi-controller,
\* non-local sessions: in a local SimManager, and in any session with a
\* single operator, no position is ever warned about or force-signed-off
\* for silence.
C23_NoEvictionLocalOrSingleOperator ==
    [][\A sid \in DOMAIN sessions :
          (local \/ Cardinality(sessions[sid].sim.humans) <= 1) => ~WarnsOrEvicts(sid)]_vars

---------------------------------------------------------------------------
\* SpecCID: one CIDAllocator under any sequence of Allocate and Release
\* calls.  The Sim calls both with Sim.mu held, so each call is one step.

\* the codes Release is called with: every code generated and one that is
\* not a valid code
ReleaseInputs == Codes \cup {"ZZZ"}

InitCID ==
    /\ local = FALSE
    /\ simSessions = EmptyMap
    /\ sessionsByToken = EmptyMap
    /\ sessions = <<>>
    /\ nextToken = 0
    /\ bgIdle = 0
    /\ signedOff = {}
    /\ lastCall = Call("init", NoErr)
    /\ aircraft = NewAircraft
    /\ call = [c \in Callers |-> NoCall]
    /\ applied = <<>>
    /\ holder = [l \in Locks |-> NoTask]
    /\ prog = [t \in Tasks |-> <<>>]
    /\ fullSim = NewSimState
    /\ wall = 0
    /\ trace = NoTrace
    /\ InitExt

\* CIDAllocator.Allocate
Allocate ==
    /\ \E cid \in AllocateChoices(cids) :
          LET r == CIDAllocate(cids, cid) IN
          /\ cids' = r.alloc
          /\ cidCall' = [op |-> "Allocate", arg |-> "", cid |-> r.cid, err |-> r.err,
                         held |-> FALSE,
                         prev |-> [op |-> cidCall.op, arg |-> cidCall.arg,
                                   held |-> cidCall.held],
                         failed |-> cidCall.failed \/ r.err # NoErr]
    /\ UNCHANGED <<mgrVars, lastCall, cmdVars, lockVars, simVars, cullVars, areaVars, serial, proc, resume>>

\* CIDAllocator.Release
ReleaseCID(cid) ==
    /\ cids' = CIDRelease(cids, cid)
    /\ cidCall' = [op |-> "Release", arg |-> cid, cid |-> "", err |-> NoErr,
                   held |-> cid \in cids.allocated,
                   prev |-> [op |-> cidCall.op, arg |-> cidCall.arg, held |-> cidCall.held],
                   failed |-> cidCall.failed]
    /\ UNCHANGED <<mgrVars, lastCall, cmdVars, lockVars, simVars, cullVars, areaVars, serial, proc, resume>>

NextCID ==
    \/ Allocate
    \/ \E cid \in ReleaseInputs : ReleaseCID(cid)

SpecCID == InitCID /\ [][NextCID]_vars

\* the step is a call of Allocate, of Release
IsAllocate == cidCall'.op = "Allocate" /\ <<cids, cidCall>>' # <<cids, cidCall>>
IsRelease == cidCall'.op = "Release" /\ <<cids, cidCall>>' # <<cids, cidCall>>

\* the free codes of partition g (0-based) and the lowest partition that
\* has one, NumGroups when none has
FreeIn(c, g) == c.groups[g + 1]
LowestFreeGroup(c) ==
    IF \A g \in 0..(NumGroups - 1) : FreeIn(c, g) = {} THEN NumGroups
    ELSE CHOOSE g \in 0..(NumGroups - 1) :
            FreeIn(c, g) # {} /\ \A h \in 0..(g - 1) : FreeIn(c, h) = {}

\* C24: after any sequence of Allocate and Release calls, Allocate never
\* returns a code that is currently held, i.e. one returned by an earlier
\* Allocate and not released since.
C24_AllocateNeverReturnsHeldCode ==
    [][(IsAllocate /\ cidCall'.err = NoErr) =>
          /\ cidCall'.cid \notin cids.allocated
          /\ cidCall'.cid \in cids'.allocated
          /\ cids'.allocated = cids.allocated \cup {cidCall'.cid}]_vars

\* Allocate returns the code that the call before it released, while
\* other codes are held
C24_Witness ==
    /\ cidCall.op = "Allocate" /\ cidCall.err = NoErr
    /\ cidCall.prev.op = "Release" /\ cidCall.prev.held
    /\ cidCall.cid = cidCall.prev.arg
    /\ Cardinality(cids.allocated) >= 3

\* C25: a successful Allocate returns a code of the lowest-numbered
\* partition that currently contains a free code: no code of a later
\* partition is issued while an earlier partition has a free code,
\* including codes released back into an earlier partition.
C25_LowestPartitionFirst ==
    [][(IsAllocate /\ cidCall'.err = NoErr) =>
          /\ cidCall'.cid \in FreeIn(cids, LowestFreeGroup(cids))
          /\ cids.cidGroup[cidCall'.cid] = LowestFreeGroup(cids)
          /\ \A h \in 0..(cids.cidGroup[cidCall'.cid] - 1) : FreeIn(cids, h) = {}]_vars

\* with codes of later partitions held, Allocate returns the code of an
\* earlier partition that the call before it released
C25_Witness ==
    /\ cidCall.op = "Allocate" /\ cidCall.err = NoErr
    /\ cidCall.prev.op = "Release" /\ cidCall.prev.held
    /\ cidCall.cid = cidCall.prev.arg
    /\ \E held \in cids.allocated : cids.cidGroup[held] > cids.cidGroup[cidCall.cid] + 1

\* C26: Allocate returns an error, no code, and allocates nothing exactly
\* when no code of any of the 7 partitions is free; whenever a code is free
\* it succeeds, and after an exhaustion failure a Release of any held code
\* leaves a free code, so the next Allocate succeeds.
C26_FailsExactlyWhenExhausted ==
    [][/\ IsAllocate =>
             /\ cidCall'.err # NoErr <=> LowestFreeGroup(cids) = NumGroups
             /\ cidCall'.err # NoErr =>
                   /\ cidCall'.cid = ""
                   /\ cids'.allocated = cids.allocated
                   /\ cids'.groups = cids.groups
             /\ cidCall'.err = NoErr => cidCall'.cid \in Codes
       /\ (IsRelease /\ cidCall'.held /\ cidCall.op = "Allocate" /\ cidCall.err # NoErr) =>
             /\ LowestFreeGroup(cids') < NumGroups
             /\ AllocateChoices(cids') = {cidCall'.arg}
             /\ CIDAllocate(cids', cidCall'.arg).err = NoErr]_vars

\* Allocate succeeds after an Allocate that failed and a Release
C26_Witness ==
    /\ NumGroups = 7
    /\ cidCall.op = "Allocate" /\ cidCall.err = NoErr
    /\ cidCall.failed
    /\ cidCall.prev.op = "Release" /\ cidCall.prev.held

\* every code is held or free in its own partition, never both, and free
\* in no other partition
HeldOrFree(c) ==
    \A cid \in Codes :
        /\ cid \in c.allocated <=> cid \notin FreeIn(c, c.cidGroup[cid])
        /\ \A g \in 0..(NumGroups - 1) : cid \in FreeIn(c, g) => g = c.cidGroup[cid]

\* C27: Release(c) of a held code c puts c back as free in the partition
\* it came from, so that a following Allocate may return it, and must when
\* c is the only free code of the lowest partition with a free code;
\* Release of a code that is not held (never allocated, already released,
\* not a valid code) changes nothing; at all times every code is either
\* held or free in exactly its own partition.
C27_ReleaseReturnsCodeToItsPartition ==
    [][/\ IsRelease =>
             LET cid == cidCall'.arg IN
             IF cid \in cids.allocated
             THEN /\ cids'.allocated = cids.allocated \ {cid}
                  /\ cids'.groups =
                        [cids.groups EXCEPT ![cids.cidGroup[cid] + 1] = @ \cup {cid}]
                  /\ \E pick \in AllocateChoices(cids') :
                        CIDAllocate(cids', pick).cid \in FreeIn(cids', LowestFreeGroup(cids'))
                  /\ LowestFreeGroup(cids') = cids.cidGroup[cid]
                        => cid \in AllocateChoices(cids')
                  /\ FreeIn(cids', LowestFreeGroup(cids')) = {cid}
                        => AllocateChoices(cids') = {cid}
             ELSE cids' = cids
       /\ HeldOrFree(cids')
       /\ cids'.allocated \subseteq Codes]_vars

\* a held code of the three-code partition is released while others are
\* held, then an invalid and an already released code are released
C27_Witness ==
    /\ cidCall.op = "Release" /\ ~cidCall.held
    /\ cidCall.prev.op = "Release" /\ cidCall.prev.held
    /\ cidCall.arg = cidCall.prev.arg
    /\ Cardinality(FreeIn(cids, cids.cidGroup[cidCall.arg])) = 2
    /\ Cardinality(cids.allocated) >= 2

---------------------------------------------------------------------------
\* SpecAreas: the restriction areas of one Sim under the calls of two RPC
\* tasks.  CreateRestrictionArea, UpdateRestrictionArea and
\* DeleteRestrictionArea take no lock, so another task's call may run
\* between a call's look at the list and its store: each call is a step
\* that checks and, unless it returns there, a step that stores.
\* CreateRestrictionArea's scan of the list is one step.

InitAreas ==
    /\ local = FALSE
    /\ simSessions = EmptyMap
    /\ sessionsByToken = EmptyMap
    /\ sessions = <<>>
    /\ nextToken = 0
    /\ bgIdle = 0
    /\ signedOff = {}
    /\ lastCall = Call("init", NoErr)
    /\ aircraft = NewAircraft
    /\ call = [c \in Callers |-> NoCall]
    /\ applied = <<>>
    /\ holder = [l \in Locks |-> NoTask]
    /\ prog = [t \in Tasks |-> <<>>]
    /\ fullSim = NewSimState
    /\ wall = 0
    /\ trace = NoTrace
    /\ InitExt

\* the record of task t's new call
AreaCall(t, op, idx, ra, pc, err, ret) ==
    [op |-> op, idx |-> idx, ra |-> IF pc = "checked" THEN ra ELSE DeletedRestrictionArea,
     pc |-> pc, err |-> err, ret |-> ret,
     again |-> /\ areaCall[t].op = "Delete" /\ areaCall[t].err = NoErr
               /\ op = "Delete" /\ areaCall[t].idx = idx]

AreasUnchangedElsewhere ==
    UNCHANGED <<mgrVars, lastCall, cmdVars, lockVars, simVars, cullVars, cidVars, serial, proc, resume>>

\* Sim.CreateRestrictionArea up to the choice of the slot
BeginCreateRestrictionArea(t, ra) ==
    /\ areaCall[t].pc # "checked"
    /\ LET slot == FreeRestrictionAreaSlot(areas) IN
       areaCall' = [areaCall EXCEPT ![t] =
                       IF slot = 0
                       THEN AreaCall(t, "Create", 0, ra, "done", ErrTooManyRestrictionAreas, 0)
                       ELSE AreaCall(t, "Create", slot, ra, "checked", NoErr, 0)]
    /\ UNCHANGED areas
    /\ AreasUnchangedElsewhere

\* Sim.UpdateRestrictionArea up to its index checks
BeginUpdateRestrictionArea(t, idx, ra) ==
    /\ areaCall[t].pc # "checked"
    /\ LET err == CheckRestrictionAreaIndex(areas, idx) IN
       areaCall' = [areaCall EXCEPT ![t] =
                       AreaCall(t, "Update", idx, ra,
                                IF err = NoErr THEN "checked" ELSE "done", err, 0)]
    /\ UNCHANGED areas
    /\ AreasUnchangedElsewhere

\* Sim.DeleteRestrictionArea up to its index checks
BeginDeleteRestrictionArea(t, idx) ==
    /\ areaCall[t].pc # "checked"
    /\ LET err == CheckRestrictionAreaIndex(areas, idx) IN
       areaCall' = [areaCall EXCEPT ![t] =
                       AreaCall(t, "Delete", idx, DeletedRestrictionArea,
                                IF err = NoErr THEN "checked" ELSE "done", err, 0)]
    /\ UNCHANGED areas
    /\ AreasUnchangedElsewhere

\* the store that ends the call of task t, and its return
FinishRestrictionAreaCall(t) ==
    /\ areaCall[t].pc = "checked"
    /\ areas' = StoreRestrictionArea(areas, areaCall[t].idx, areaCall[t].ra)
    /\ areaCall' = [areaCall EXCEPT
                      ![t].pc = "done",
                      ![t].ra = DeletedRestrictionArea,
                      ![t].ret = IF areaCall[t].op = "Create" THEN areaCall[t].idx ELSE 0]
    /\ AreasUnchangedElsewhere

NextAreas ==
    \/ \E t \in RPCTasks, ra \in RestrictionAreaInputs : BeginCreateRestrictionArea(t, ra)
    \/ \E t \in RPCTasks, idx \in IndexInputs, ra \in RestrictionAreaInputs :
          BeginUpdateRestrictionArea(t, idx, ra)
    \/ \E t \in RPCTasks, idx \in IndexInputs : BeginDeleteRestrictionArea(t, idx)
    \/ \E t \in RPCTasks : FinishRestrictionAreaCall(t)

SpecAreas == InitAreas /\ [][NextAreas]_vars

\* task t starts a call of UpdateRestrictionArea or DeleteRestrictionArea
\* in this step
StartsIndexedCall(t) ==
    /\ areaCall'[t] # areaCall[t]
    /\ areaCall[t].pc # "checked"
    /\ areaCall'[t].op \in {"Update", "Delete"}

\* C28: UpdateRestrictionArea and DeleteRestrictionArea called with a
\* 1-based index that is below 1, above the number of slots, or that
\* refers to an already-deleted slot return ErrInvalidRestrictionAreaIndex
\* and leave the restriction-area list unchanged; a delete leaves its slot
\* deleted, so deleting the same index again fails.
C28_InvalidIndexRejected ==
    [][\A t \in RPCTasks :
          /\ StartsIndexedCall(t) =>
                LET idx == areaCall'[t].idx
                    invalid == idx < 1 \/ idx > Len(areas) \/ areas[idx].Deleted
                IN  /\ invalid <=> areaCall'[t].err = ErrInvalidRestrictionAreaIndex
                    /\ invalid => (areaCall'[t].pc = "done" /\ areas' = areas)
                    /\ areaCall'[t].err \in {NoErr, ErrInvalidRestrictionAreaIndex}
          /\ (areaCall[t].pc = "checked" /\ areaCall'[t].pc = "done"
                 /\ areaCall[t].op = "Delete") =>
                /\ areas'[areaCall[t].idx] = DeletedRestrictionArea
                /\ CheckRestrictionAreaIndex(areas', areaCall[t].idx)
                      = ErrInvalidRestrictionAreaIndex]_vars

\* a task's second delete of an index has failed, its first having
\* succeeded, with another area in the list
C28_Witness ==
    \E t \in RPCTasks :
        /\ areaCall[t].op = "Delete" /\ areaCall[t].pc = "done"
        /\ areaCall[t].err = ErrInvalidRestrictionAreaIndex
        /\ areaCall[t].again
        /\ areaCall[t].idx = 1
        /\ Len(areas) = 2 /\ areas[1].Deleted /\ ~areas[2].Deleted

---------------------------------------------------------------------------
\* SpecSerialize: GetSerializeSim on a Sim whose controllers sign on, sign
\* off and change position.  SimManager.GetSerializeSim holds the
\* SimManager's lock, Sim.GetSerializeSim takes none: the calls that hold
\* Sim.mu (signOn, SignOff) and the unlocked half of ChangeControlPosition
\* run between the steps of its loop.  A key added to humanControllers
\* while the loop runs is taken to be produced by it.

InitSerialize ==
    /\ InitRoster

\* Sim.GetSerializeSim: ss := *s and the start of the loop
BeginGetSerializeSim ==
    /\ serial.pc = "idle"
    /\ serial' = [serial EXCEPT !.pc = "ranging",
                                !.occupied = DOMAIN fullSim.humanControllers]
    /\ UNCHANGED <<mgrVars, lastCall, cmdVars, lockVars, proc, resume, cullVars, cidVars, areaVars,
                   simVars>>

\* one iteration of the loop over humanControllers
VisitHumanController(ctrl) ==
    /\ serial.pc = "ranging"
    /\ ctrl \in DOMAIN fullSim.humanControllers \ serial.visited
    /\ fullSim' = DeleteSerializedController(fullSim, ctrl)
    /\ serial' = [serial EXCEPT !.visited = @ \cup {ctrl}]
    /\ UNCHANGED <<mgrVars, lastCall, cmdVars, lockVars, proc, resume, cullVars, cidVars, areaVars,
                   wall, trace>>

\* the end of the loop and the return of ss
ReturnSerializeSim ==
    /\ serial.pc = "ranging"
    /\ DOMAIN fullSim.humanControllers \subseteq serial.visited
    /\ serial' = [serial EXCEPT !.pc = "returned", !.value = fullSim]
    /\ UNCHANGED <<mgrVars, lastCall, cmdVars, lockVars, proc, resume, cullVars, cidVars, areaVars,
                   simVars>>

NextSerialize ==
    \/ \E tcp \in PositionInputs, instructor \in BOOLEAN : SignOnPosition(tcp, instructor)
    \/ \E tcp \in PositionInputs : SignOffPosition(tcp)
    \/ \E fromTCP \in ScenarioSignOnPositions, toTCP \in PositionInputs,
          keepTracks \in BOOLEAN :
           BeginChangeControlPosition(fromTCP, toTCP, keepTracks)
    \/ FinishChangeControlPosition
    \/ BeginGetSerializeSim
    \/ \E ctrl \in ScenarioSignOnPositions : VisitHumanController(ctrl)
    \/ ReturnSerializeSim

SpecSerialize == InitSerialize /\ [][NextSerialize]_vars

\* C29: the Sim value produced by GetSerializeSim contains no controller
\* entry for any position that was human-occupied at the time of the call,
\* so that after the serialized Sim is reloaded and activated every such
\* position is unoccupied and SignOn to it succeeds.
C29_SerializedSimHasNoHumanControllers ==
    serial.pc = "returned" =>
        \A tcp \in serial.occupied :
            /\ tcp \notin serial.value.controllers
            /\ LET loaded == ActivateSerialized(serial.value, wall)
               IN  /\ ~isActiveHumanController(loaded, tcp)
                   /\ SimSignOnFull(loaded, tcp, FALSE, wall).err = NoErr

---------------------------------------------------------------------------
\* SpecCrash: the registry of a server whose handlers and driver tasks may
\* panic.  A process that has ended takes no step.

InitCrash ==
    /\ InitCull

\* the handler of an RPC panics below its entry point; what the handler did
\* before is left out
PanicInRPC(entry) ==
    /\ proc.caught < MaxPanics
    /\ proc' = Panic(proc, entry)
    /\ lastCall' = Call(entry[2], "panic")
    /\ UNCHANGED <<mgrVars, cmdVars, lockVars, simVars, cullVars, cidVars, areaVars, serial,
                   resume>>

\* the driver task of session sid panics inside its loop: the barrier at the
\* top of the task catches it, and the task ends without the teardown
PanicInDriver(sid) ==
    /\ proc.caught < MaxPanics
    /\ sessions[sid].running
    /\ proc' = Panic(proc, <<"driver", sessions[sid].name>>)
    /\ sessions' = [sessions EXCEPT ![sid].running = FALSE]
    /\ lastCall' = Call("driver", "panic")
    /\ UNCHANGED <<local, simSessions, sessionsByToken, nextToken, bgIdle, signedOff>>
    /\ UNCHANGED <<cmdVars, lockVars, simVars, cullVars, cidVars, areaVars, serial, resume>>

NextCrash ==
    /\ proc.alive
    /\ \/ \E name \in Names : NewSim(name, "", TRUE, "ok", FALSE)
       \/ \E name \in Names, pos \in PositionInputs : ConnectToSimRPC(name, pos, "")
       \/ \E token \in TokenInputs : SignOff(token)
       \/ \E entry \in EntryPoints : PanicInRPC(entry)
       \/ \E sid \in DOMAIN sessions : PanicInDriver(sid)

SpecCrash == InitCrash /\ [][NextCrash]_vars

\* the step is a panic
IsPanic == proc'.last # proc.last \/ proc'.caught # proc.caught \/ proc'.alive # proc.alive

\* the session the panicking task belongs to, if it is a driver task
OwnSession(sid) == proc'.last = <<"driver", sessions[sid].name>>

\* C30: a panic in an RPC entry point (a method of Dispatcher, an RPC method
\* of SimManager) or in a driver task is caught: the process keeps running,
\* and no session other than the panicking driver's own is changed.
C30_PanicIsCaught ==
    [][IsPanic =>
          /\ proc'.alive
          /\ proc'.caught = proc.caught + 1
          /\ simSessions' = simSessions
          /\ sessionsByToken' = sessionsByToken
          /\ \A sid \in DOMAIN sessions :
                ~OwnSession(sid) => sessions'[sid] = sessions[sid]]_vars

---------------------------------------------------------------------------
\* the handoff of callsign c is left to a human in step st: its deadline has
\* passed, the aircraft exists and the position it is offered to is a
\* signed-on human
HandoffLeftToHuman(st, c) ==
    /\ c \in DOMAIN st.before.Handoffs
    /\ TimeAfter(st.before.SimTime, st.before.Handoffs[c].AutoAcceptTime)
    /\ c \in DOMAIN st.before.Aircraft
    /\ st.before.Aircraft[c].HandoffTrackController # ""
    /\ isActiveHumanController(st.before, st.before.Aircraft[c].HandoffTrackController)

\* the acceptances of callsign c a step posted
Acceptances(st, c) ==
    {i \in 1..Len(st.posted) :
        st.posted[i].Type = "AcceptedHandoffEvent" /\ st.posted[i].Callsign = c}

---------------------------------------------------------------------------
\* the point-out of callsign c is past its accept deadline in step st
PointOutPastDeadline(st, c) ==
    /\ c \in DOMAIN st.before.PointOuts
    /\ TimeAfter(st.before.SimTime, st.before.PointOuts[c].AcceptTime)

\* the acknowledgments of callsign c a step posted
AcknowledgmentsOf(st, c) ==
    {i \in 1..Len(st.posted) :
        st.posted[i].Type = "AcknowledgedPointOutEvent" /\ st.posted[i].Callsign = c}

\* C32: a point-out entry whose accept deadline has passed and whose
\* recipient is not a signed-on human is acknowledged and removed from
\* PointOuts by the one-second step, so no such entry survives a step; an
\* entry whose recipient is a signed-on human is left in place with no event
\* posted.
C32_PointOutAcknowledgedAndRemoved ==
    \A st \in LastSteps :
        \A c \in DOMAIN st.before.PointOuts :
            PointOutPastDeadline(st, c) =>
                IF isActiveHumanController(st.before, st.before.PointOuts[c].ToController)
                THEN /\ c \in DOMAIN st.after.PointOuts
                     /\ st.after.PointOuts[c] = st.before.PointOuts[c]
                     /\ AcknowledgmentsOf(st, c) = {}
                ELSE /\ c \notin DOMAIN st.after.PointOuts
                     /\ Cardinality(AcknowledgmentsOf(st, c)) = 1

---------------------------------------------------------------------------
\* SpecAdvance: one Sim whose aircraft fly routes of waypoints; the driver
\* calls Update once a second while controllers sign on and off.

\* the longest behaviour, in wall-clock seconds
MaxAdvanceSeconds == 2

ScratchpadWaypoint ==
    [PlainWaypoint EXCEPT !.PrimaryScratchpad = "W1", !.SecondaryScratchpad = "W2"]
ClearScratchpadWaypoint ==
    [PlainWaypoint EXCEPT !.ClearPrimaryScratchpad = TRUE,
                          !.ClearSecondaryScratchpad = TRUE]
PointOutWaypoint == [PlainWaypoint EXCEPT !.PointOut = "V1", !.PrimaryScratchpad = "W1"]
HandoffWaypoint == [PlainWaypoint EXCEPT !.TCPHandoff = "P2", !.TransferComms = TRUE]
HumanHandoffWaypoint == [PlainWaypoint EXCEPT !.HumanHandoff = TRUE]
DeleteWaypoint == [PlainWaypoint EXCEPT !.Delete = TRUE]
LandWaypoint == [PlainWaypoint EXCEPT !.Land = TRUE]

\* the routes of the scenario
Routes ==
    {<<ScratchpadWaypoint, ClearScratchpadWaypoint>>,
     <<PointOutWaypoint, DeleteWaypoint>>,
     <<HandoffWaypoint, LandWaypoint>>,
     <<HumanHandoffWaypoint, ScratchpadWaypoint>>}

\* the routes of the aircraft the primary controller talks to
HumanRoutes ==
    {<<ScratchpadWaypoint, ClearScratchpadWaypoint>>, <<HandoffWaypoint, LandWaypoint>>}

\* what else may be true of one of the aircraft when the behaviour starts
Conditions == {"", "GoAround", "CheckIn", "Far", "HoldForRelease", "WaitingForLaunch"}

\* an aircraft with scratchpads a controller has set
FlyingAircraft(tracking, controlling, route, condition) ==
    [TrackingController |-> tracking, HandoffTrackController |-> "",
     ControllingController |-> controlling,
     WaypointHandoffController |-> "P1", DepartureContactController |-> "P1",
     Scratchpad |-> "H1", SecondaryScratchpad |-> "H2",
     HoldForRelease |-> condition = "HoldForRelease", Released |-> FALSE,
     WaitingForLaunch |-> condition = "WaitingForLaunch",
     Route |-> route, GoAround |-> condition = "GoAround",
     CheckIn |-> condition = "CheckIn", Far |-> condition = "Far", Advanced |-> 0]

InitAdvance ==
    /\ local = FALSE
    /\ simSessions = EmptyMap
    /\ sessionsByToken = EmptyMap
    /\ sessions = <<>>
    /\ nextToken = 0
    /\ bgIdle = 0
    /\ signedOff = {}
    /\ lastCall = Call("init", NoErr)
    /\ aircraft = NewAircraft
    /\ call = [c \in Callers |-> NoCall]
    /\ applied = <<>>
    /\ holder = [l \in Locks |-> NoTask]
    /\ prog = [t \in Tasks |-> <<>>]
    /\ \E r1 \in HumanRoutes, r2 \in Routes, which \in Callsigns, cond \in Conditions,
          ctrl \in {"P2", "V1"} :
          fullSim = [SimSignOnFull(NewSimState, PrimaryPosition, FALSE, 0).sim @@
                     [lastSimUpdate |-> ZeroTime, FutureControllerContacts |-> <<>>]
                        EXCEPT !.Aircraft =
                            [c \in Callsigns |->
                                IF c = "AAL1"
                                THEN FlyingAircraft("P1", "P1", r1,
                                                    IF which = c THEN cond ELSE "")
                                ELSE FlyingAircraft("V1", ctrl, r2,
                                                    IF which = c THEN cond ELSE "")]]
    /\ wall = 0
    /\ trace = NoTrace
    /\ InitExt

\* a second passes
TickSecond ==
    /\ wall < MaxAdvanceSeconds * Second
    /\ wall = fullSim.lastUpdateTime \/ ~SimUpdates(fullSim)
    /\ wall' = wall + Second
    /\ UNCHANGED <<fullSim, trace, otherVars>>

\* the driver task calls Sim.Update; the aircraft in passes reach their next
\* waypoint in each second of it
UpdateAircraft(order, passes) ==
    /\ wall > fullSim.lastUpdateTime
    /\ LET r == SimUpdateFull(fullSim, wall, order, passes)
       IN  /\ fullSim' = r.sim
           /\ trace' = [Logged("Update", <<>>, NoErr) EXCEPT
                           !.steps = r.steps, !.calls = trace.calls]
    /\ UNCHANGED <<wall, otherVars>>

NextAdvance ==
    \/ TickSecond
    \/ \E order \in Orders, passes \in SUBSET Callsigns : UpdateAircraft(order, passes)
    \/ \E tcp \in ScenarioSignOnPositions : SignOnPosition(tcp, FALSE)
    \/ \E tcp \in ScenarioSignOnPositions : SignOffPosition(tcp)

SpecAdvance == InitAdvance /\ [][NextAdvance]_vars

\* the scratchpads of an aircraft
Scratchpads(ac) == <<ac.Scratchpad, ac.SecondaryScratchpad>>

\* C33: a one-second step changes the primary or secondary scratchpad of an
\* aircraft only if the aircraft is not under the control of a signed-on
\* human: for an aircraft whose ControllingController is a signed-on human
\* no step changes either scratchpad.
C33_HumanScratchpadsNotOverwritten ==
    \A st \in LastSteps :
        \A c \in DOMAIN st.before.Aircraft \cap DOMAIN st.after.Aircraft :
            Scratchpads(st.after.Aircraft[c]) # Scratchpads(st.before.Aircraft[c])
                => ~isActiveHumanController(st.before,
                                            st.before.Aircraft[c].ControllingController)

\* a step in which an aircraft under human control passed a waypoint with
\* scratchpad data and kept its scratchpads, and one under virtual control
\* had them changed
C33_Witness ==
    \E st \in LastSteps :
        /\ \E c \in DOMAIN st.before.Aircraft \cap DOMAIN st.after.Aircraft :
              /\ isActiveHumanController(st.before,
                                         st.before.Aircraft[c].ControllingController)
              /\ st.before.Aircraft[c].Route # <<>>
              /\ Head(st.before.Aircraft[c].Route).PrimaryScratchpad # ""
              /\ st.after.Aircraft[c].Route = Tail(st.before.Aircraft[c].Route)
              /\ Scratchpads(st.after.Aircraft[c]) = <<"H1", "H2">>
        /\ \E c \in DOMAIN st.before.Aircraft \cap DOMAIN st.after.Aircraft :
              /\ ~isActiveHumanController(st.before,
                                          st.before.Aircraft[c].ControllingController)
              /\ Scratchpads(st.after.Aircraft[c]) = <<"W1", "W2">>

---------------------------------------------------------------------------
\* SpecArgs: RunAircraftCommands on command strings of numeric tokens: every
\* form that carries an altitude, a heading or a speed, with every number of
\* TypedNumbers.

\* command tokens in one call
MaxArgCmds == 2

\* the numbers callers type, as digit strings
TypedNumbers == {<<"5">>, <<"0", "9", "0">>, <<"2", "5", "0">>, <<"3", "6", "0">>}

AltitudeForms == {"C", "D", "TA", "TC", "TD"}
HeadingForms == {"H", "L", "R"}
LeftTurnForms == {"LD", "TL"}
RightTurnForms == {"RD", "TR"}
SpeedForms == {"S", "TS"}
CrossFixForms == {"/A", "/A+", "/A-", "/S", "/A/S"}
TokenForms ==
    AltitudeForms \cup HeadingForms \cup LeftTurnForms \cup RightTurnForms
        \cup SpeedForms \cup CrossFixForms

\* the speed typed after the altitude in a cross-fix token with both
CrossFixSpeed == <<"2", "1", "0">>

\* the token of a form with the number n typed in it
MakeToken(form, n) ==
    CASE form = "C" -> <<"C">> \o n
      [] form = "D" -> <<"D">> \o n
      [] form = "TA" -> <<"T", "A">> \o n
      [] form = "TC" -> <<"T", "C">> \o n
      [] form = "TD" -> <<"T", "D">> \o n
      [] form = "H" -> <<"H">> \o n
      [] form = "L" -> <<"L">> \o n
      [] form = "R" -> <<"R">> \o n
      [] form = "LD" -> <<"L">> \o n \o <<"D">>
      [] form = "RD" -> <<"R">> \o n \o <<"D">>
      [] form = "TL" -> <<"T">> \o n \o <<"L">>
      [] form = "TR" -> <<"T">> \o n \o <<"R">>
      [] form = "S" -> <<"S">> \o n
      [] form = "TS" -> <<"T", "S">> \o n
      [] form = "/A" -> <<"C", "A", "B", "C", "/", "A">> \o n
      [] form = "/A+" -> <<"C", "A", "B", "C", "/", "A">> \o n \o <<"+">>
      [] form = "/A-" -> <<"C", "A", "B", "C", "/", "A">> \o n \o <<"-">>
      [] form = "/S" -> <<"C", "A", "B", "C", "/", "S">> \o n
      [] form = "/A/S" -> <<"C", "A", "B", "C", "/", "A">> \o n \o <<"/", "S">>
                             \o CrossFixSpeed

NumericTokens == {MakeToken(form, n) : form \in TokenForms, n \in TypedNumbers}

NextArgs ==
    \/ \E toks \in SeqsUpTo(NumericTokens, MaxArgCmds) :
          RunAircraftCommands("c1", 1, toks, <<" ">>)
    \/ CommandStep("c1")

SpecArgs == InitCmd /\ [][NextArgs]_vars

\* what the engine has received when the token of the form with the typed
\* number n was applied to the aircraft ac and left it as ac2
Received(form, n, ac, ac2) ==
    LET v == DecimalValue(n) IN
    CASE form \in AltitudeForms -> ac2 = [ac EXCEPT !.altitude = 100 * v]
      [] form \in HeadingForms -> ac2 = [ac EXCEPT !.heading = v]
      [] form \in LeftTurnForms -> ac2 = [ac EXCEPT !.heading = (@ + 360 - (v % 360)) % 360]
      [] form \in RightTurnForms -> ac2 = [ac EXCEPT !.heading = (@ + v) % 360]
      [] form \in SpeedForms -> ac2 = [ac EXCEPT !.speed = v]
      [] form = "/A" ->
            ac2 = [ac EXCEPT !.crossing = <<<<"A", "B", "C">>, <<100 * v, 100 * v>>, 0>>]
      [] form = "/A+" ->
            ac2 = [ac EXCEPT !.crossing = <<<<"A", "B", "C">>, <<100 * v, 0>>, 0>>]
      [] form = "/A-" ->
            ac2 = [ac EXCEPT !.crossing = <<<<"A", "B", "C">>, <<0, 100 * v>>, 0>>]
      [] form = "/S" -> ac2 = [ac EXCEPT !.crossing = <<<<"A", "B", "C">>, <<>>, v>>]
      [] form = "/A/S" ->
            ac2 = [ac EXCEPT !.crossing = <<<<"A", "B", "C">>, <<100 * v, 100 * v>>,
                                            DecimalValue(CrossFixSpeed)>>]

\* C34: every command token that assigns a numeric altitude n (C<n>, D<n>,
\* TA<n>, TC<n>, TD<n>, the A<n> clause of a cross-fix token) hands the engine
\* the altitude 100 n, both bounds of a cross-fix restriction included;
\* numeric headings (H, L, R and T forms) and speeds (S<n>, TS<n>, cross-fix
\* S<n>) reach the engine equal to the typed number; and none of these
\* tokens is rejected.
C34_AltitudesInHundredsOthersLiteral ==
    [][\A form \in TokenForms, n \in TypedNumbers :
          (/\ CommandStep("c1")
           /\ call["c1"].commands[call["c1"].i] = MakeToken(form, n))
          => /\ call'["c1"].result.ErrorMessage = ""
             /\ Received(form, n, aircraft, aircraft')]_vars

\* "TD250 LD90"... : an altitude of 25000 feet, then a left turn of 90 degrees
C34_Witness ==
    /\ call["c1"].pc = "done"
    /\ call["c1"].toks = <<MakeToken("TD", <<"2", "5", "0">>),
                           MakeToken("LD", <<"0", "9", "0">>)>>
    /\ aircraft = [NewAircraft EXCEPT !.altitude = 25000, !.heading = 270]

----------------------------------------------------------------------------
\* SpecResume: pausing, signing positions on and off, changing position and
\* changing the rate, interleaved with the driver's Update calls, with the
\* wall-clock time at which the simulation last resumed kept as history.

\* Sim.Update does not return early: unpaused with the primary signed on
Running(s) == ~s.paused /\ isActiveHumanController(s, s.primary)

\* the history after an operation that takes the Sim from s to s2 at
\* wall-clock time now
Resumed(s, s2, now, updated) ==
    IF ~Running(s) /\ Running(s2) THEN [at |-> now, first |-> TRUE]
    ELSE IF updated /\ Running(s) THEN [resume EXCEPT !.first = FALSE]
    ELSE resume

resumeOther == <<mgrVars, lastCall, cmdVars, lockVars, cullVars, cidVars,
                 areaVars, serial, proc>>

\* time passes; the driver calls Update of a running Sim often enough
ResumeTick(d) ==
    /\ wall + d <= MaxWall
    /\ Running(fullSim) => wall + d - fullSim.lastUpdateTime <= MaxElapsed
    /\ wall' = wall + d
    /\ UNCHANGED <<fullSim, trace, resume, resumeOther>>

\* the driver task calls Sim.Update
ResumeUpdate(order) ==
    /\ LET r == SimUpdate(fullSim, wall, order)
       IN  /\ fullSim' = r.sim
           /\ trace' = [Logged("Update", <<>>, NoErr) EXCEPT
                           !.steps = r.steps,
                           !.calls = trace.calls,
                           !.nsteps = @ + Len(r.steps)]
           /\ resume' = Resumed(fullSim, r.sim, wall, TRUE)
    /\ UNCHANGED <<wall, resumeOther>>

\* Sim.SetSimRate
ResumeSetSimRate(rate) ==
    /\ trace.calls < MaxCalls
    /\ fullSim' = SimSetSimRate(fullSim, rate)
    /\ trace' = Logged("SetSimRate", <<rate>>, NoErr)
    /\ resume' = Resumed(fullSim, fullSim', wall, FALSE)
    /\ UNCHANGED <<wall, resumeOther>>

\* Sim.TogglePause
ResumeTogglePause(tcp) ==
    /\ trace.calls < MaxCalls
    /\ tcp \in fullSim.humans
    /\ fullSim' = SimTogglePauseFull(fullSim, tcp, wall)
    /\ trace' = Logged("TogglePause", <<tcp>>, NoErr)
    /\ resume' = Resumed(fullSim, fullSim', wall, FALSE)
    /\ UNCHANGED <<wall, resumeOther>>

\* Sim.SignOn
ResumeSignOn(tcp) ==
    /\ trace.calls < MaxCalls
    /\ LET r == SimSignOnFull(fullSim, tcp, FALSE, wall)
       IN  /\ fullSim' = r.sim
           /\ trace' = Logged("SignOn", <<tcp>>, r.err)
           /\ resume' = Resumed(fullSim, r.sim, wall, FALSE)
    /\ UNCHANGED <<wall, resumeOther>>

\* Sim.SignOff
ResumeSignOff(tcp) ==
    /\ trace.calls < MaxCalls
    /\ LET r == SimSignOffFull(fullSim, tcp)
       IN  /\ fullSim' = r.sim
           /\ trace' = Logged("SignOff", <<tcp>>, r.err)
           /\ resume' = Resumed(fullSim, r.sim, wall, FALSE)
    /\ UNCHANGED <<wall, resumeOther>>

\* Sim.ChangeControlPosition, called by the dispatcher with the position
\* the caller's token is signed on at
ResumeChangeControlPosition(fromTCP, toTCP, keepTracks) ==
    /\ trace.calls < MaxCalls
    /\ fromTCP \in fullSim.humans
    /\ LET r == SimChangeControlPositionFull(fullSim, fromTCP, toTCP, keepTracks, wall)
       IN  /\ r.err # "panic"
           /\ fullSim' = r.sim
           /\ trace' = Logged("ChangeControlPosition", <<fromTCP, toTCP>>, r.err)
           /\ resume' = Resumed(fullSim, r.sim, wall, FALSE)
    /\ UNCHANGED <<wall, resumeOther>>

InitResume ==
    /\ InitUpdate
    /\ ~fullSim.prespawn

NextResume ==
    \/ \E d \in WallSteps : ResumeTick(d)
    \/ \E order \in Orders : ResumeUpdate(order)
    \/ \E rate \in RateInputs : ResumeSetSimRate(rate)
    \/ \E tcp \in ScenarioSignOnPositions : ResumeTogglePause(tcp)
    \/ \E tcp \in ScenarioSignOnPositions : ResumeSignOn(tcp)
    \/ \E tcp \in ScenarioSignOnPositions : ResumeSignOff(tcp)
    \/ \E fromTCP, toTCP \in ScenarioSignOnPositions, keepTracks \in BOOLEAN :
           ResumeChangeControlPosition(fromTCP, toTCP, keepTracks)

SpecResume == InitResume /\ [][NextResume]_vars

\* the whole seconds in a duration, rounded down
FloorSeconds(d) == d \div Second

\* the first Update that runs after the Sim resumed
FirstUpdateAfterResume == IsUpdateStep /\ Running(fullSim) /\ resume.first

\* C35: the first Update after an unpause or after the primary controller
\* signed on again advances SimTime by at most the whole seconds in SimRate
\* times the wall-clock time since that resumption plus the carried slop,
\* which is below one second: the time spent paused or unattended is never
\* converted into simulated seconds
C35_NoCatchUpAfterResume ==
    [][FirstUpdateAfterResume =>
          /\ 0 <= fullSim.updateTimeSlop /\ fullSim.updateTimeSlop < Second
          /\ fullSim'.SimTime.sec - fullSim.SimTime.sec
                <= FloorSeconds(fullSim.SimRate * (wall - resume.at)
                                   + fullSim.updateTimeSlop)]_vars

----------------------------------------------------------------------------
\* the positions State.HumanControllers lists
Listed(s) == {s.HumanControllers[i] : i \in 1..Len(s.HumanControllers)}

\* no SignOn, SignOff or ChangeControlPosition call is under way
BetweenRosterCalls == trace.swap = <<>>

\* C36: between the calls of SignOn, SignOff and ChangeControlPosition,
\* State.HumanControllers lists exactly the keys of humanControllers, each
\* once, every such position has an event subscription and an entry in
\* State.Controllers, and a sign-on position that is not signed on is in
\* none of them
C36_RosterListsAgree ==
    BetweenRosterCalls =>
        /\ Listed(fullSim) = DOMAIN fullSim.humanControllers
        /\ Len(fullSim.HumanControllers) = Cardinality(Listed(fullSim))
        /\ \A tcp \in DOMAIN fullSim.humanControllers :
              /\ fullSim.humanControllers[tcp] # NilSubscription
              /\ tcp \in fullSim.controllers
        /\ \A tcp \in ScenarioSignOnPositions \ DOMAIN fullSim.humanControllers :
              tcp \notin fullSim.controllers

----------------------------------------------------------------------------
\* a step of GetSerializeSim: its start, one iteration of its loop or its
\* return
IsSerializeStep == serial' # serial

\* C37: GetSerializeSim only reads the live Sim: none of its steps changes
\* State.Controllers, humanControllers or State.HumanControllers, so that
\* they are after its return what they were before the call and every
\* controller signed on then is still in State.Controllers
C37_SerializeLeavesLiveSim ==
    [][IsSerializeStep =>
          /\ fullSim'.controllers = fullSim.controllers
          /\ fullSim'.humanControllers = fullSim.humanControllers
          /\ fullSim'.HumanControllers = fullSim.HumanControllers
          /\ \A tcp \in DOMAIN fullSim.humanControllers : tcp \in fullSim'.controllers]_vars

----------------------------------------------------------------------------
\* C38: a NewSim that returns an error leaves simSessions and
\* sessionsByToken as they were and starts no driver task, and every key
\* of simSessions is the name of a session whose driver task is running
C38_FailedAddRegistersNothing ==
    [][/\ \A name \in Names, password \in Passwords, valid \in BOOLEAN,
             split \in {"ok", "bad"} :
             (NewSim(name, password, valid, split, FALSE) /\ lastCall'.err # NoErr)
             => /\ simSessions' = simSessions
                /\ sessionsByToken' = sessionsByToken
                /\ \A sid \in DOMAIN sessions' :
                      sessions'[sid].running => (sid \in DOMAIN sessions /\ sessions[sid].running)
       /\ \A name \in DOMAIN simSessions' : sessions'[simSessions'[name]].running]_vars

----------------------------------------------------------------------------
\* the aircraft loop of a one-second step runs: a second has passed since
\* lastSimUpdate
AircraftLoopDue(step) ==
    ~TimeAfter(TimeAdd(step.before.lastSimUpdate, Second), step.before.SimTime)

\* the aircraft the loop does not skip
NotHeld(ac) == ~(ac.HoldForRelease /\ ~ac.Released) /\ ~ac.WaitingForLaunch

\* the aircraft pointed out in the step
PointedOut(step) == DOMAIN step.after.PointOuts \ DOMAIN step.before.PointOuts

\* C39: in a one-second step in which a passed waypoint makes an automatic
\* point-out, every aircraft that is neither held for release nor waiting for
\* launch is advanced, and every such aircraft but the one pointed out has
\* the go-around, departure check-in and far-away checks applied, whatever
\* the order in which the aircraft are visited
C39_PointOutSkipsOnlyItsAircraft ==
    [][IsUpdateStep =>
          \A i \in 1..Len(trace'.steps) :
             LET step == trace'.steps[i] IN
             AircraftLoopDue(step) =>
                \A c \in DOMAIN step.before.Aircraft :
                   NotHeld(step.before.Aircraft[c]) =>
                      /\ c \in step.advanced
                      /\ c \notin PointedOut(step) => c \in step.checked]_vars

----------------------------------------------------------------------------
\* task t starts a call of CreateRestrictionArea in this step
StartsCreate(t) ==
    /\ areaCall'[t] # areaCall[t]
    /\ areaCall[t].pc # "checked"
    /\ areaCall'[t].op = "Create"

\* task t's call stores and returns in this step
Stores(t) == areaCall[t].pc = "checked" /\ areaCall'[t].pc = "done"

\* the slots that hold an area
LiveAreas(list) == {i \in DOMAIN list : ~list[i].Deleted}

\* C40: CreateRestrictionArea takes the lowest deleted slot if there is one,
\* else the slot after the last while there are fewer than
\* MaxRestrictionAreas, else fails with ErrTooManyRestrictionAreas and
\* leaves the list as it was; the index it returns is the slot that holds
\* the area; there are never more than MaxRestrictionAreas slots; and the
\* store of a create, update or delete changes no other live area, a create
\* storing into a slot that holds none
C40_CreateReusesLowestFreeSlot ==
    [][\A t \in RPCTasks :
          /\ StartsCreate(t) =>
                LET deleted == DOMAIN areas \ LiveAreas(areas)
                    c == areaCall'[t]
                IN  /\ areas' = areas
                    /\ IF deleted # {}
                       THEN /\ c.err = NoErr /\ c.idx \in deleted
                            /\ \A j \in deleted : c.idx <= j
                       ELSE IF Len(areas) < MaxRestrictionAreas
                       THEN c.err = NoErr /\ c.idx = Len(areas) + 1
                       ELSE c.err = ErrTooManyRestrictionAreas /\ c.pc = "done"
          /\ Stores(t) =>
                LET c == areaCall[t] IN
                /\ areas'[c.idx] = c.ra
                /\ c.op = "Create" => /\ areaCall'[t].ret = c.idx
                                      /\ c.idx \notin LiveAreas(areas)
                /\ \A j \in LiveAreas(areas) \ {c.idx} :
                      j \in DOMAIN areas' /\ areas'[j] = areas[j]
          /\ Len(areas') <= MaxRestrictionAreas]_vars

====
